---- MODULE Spec2Model ----
(***************************************************************************)
(* VeriMinutes verification core: hashing and signing (hashing.py), the    *)
(* chunked Merkle tree (merkle.py), the session store (storage.py) and the *)
(* orchestrator (service.py).                                              *)
(*                                                                         *)
(* Representation.  All data are sequences of integers so that any two     *)
(* values can be compared.  A document byte is 0 or 1.  Cryptographic      *)
(* primitives are idealised: a digest is its input between two marker      *)
(* bytes (injective, so collision free), an Ed25519 signature is the pair  *)
(* (key, message).  A JSON scalar is a record [ty, v]: its Python type and *)
(* its payload.  Text encodings (hex, base64, JSON text) keep the part of  *)
(* the text that the decoder ignores, so decoding is not injective where   *)
(* Python's is not.                                                        *)
(***************************************************************************)
EXTENDS Integers, Sequences, FiniteSets, TLC

VARIABLES
    dir,        \* whether the session directory output/<slug> exists
    fs,         \* the artifacts in the session directory, by file
    cas,        \* the objects under cas/<algo>/<hash>
    anchor,     \* the anchoring configuration read from config.toml
    key,        \* the signing identity held by the service's HashingService
    clock,      \* the time datetime.utcnow() returns
    built,      \* what the latest successful build_artifacts wrote
    result,     \* what the latest verify_artifacts call returned
    edited,     \* the file a third party has modified, or "none"
    saved,      \* the backup taken of that file before it was modified
    calls,      \* how many ingest and build calls were made so far
    hfile,      \* bytes of the target file f of the hashing scenario
    hkey,       \* HashingService.signing_key of the instance under test
    hcred,      \* the credential dict held by the caller
    horig,      \* the file bytes and credential as create_credential left them
    hres,       \* outcome of the last verify_credential call
    hedits,     \* number of modifications made since create_credential (0 or 1)
    hist,       \* the latest ingest and build calls of the session, in order
    ulog,       \* the update_manifest calls made directly on the store
    plog,       \* the store_in_cas calls made directly on the store
    mtfile,     \* bytes of the file of the Merkle scenario
    mtproof,    \* the proof dict held by the caller
    mtorig,     \* the file bytes and proof as build_from_file left them
    mtout,      \* the latest MerkleTree call of the caller and its outcome
    hver,       \* the key held by the instance that made the last verify call
    kfile,      \* the key file ~/.veriminutes/keys/ed25519.key
    kfirst,     \* the content the key file had when it first existed
    kproc,      \* the HashingService instances: progress, key, credential
    chk,        \* one verification check: its inputs, the call, the outcome
    bld,        \* the concurrent build_artifacts calls: progress and locals
    rin,        \* the concurrent ingest_transcript call: progress
    cw          \* the concurrent store_in_cas calls: arguments and progress

hvars == <<hfile, hkey, hcred, horig, hres, hedits, hver>>

svars == <<dir, fs, cas, anchor, key, clock, built, result, edited, saved,
          calls, hist>>

lvars == <<ulog, plog>>

mtvars == <<mtfile, mtproof, mtorig, mtout>>

kvars == <<kfile, kfirst, kproc>>

rvars == <<bld, rin, cw>>

xvars == <<kvars, chk, rvars>>

vars == <<dir, fs, cas, anchor, key, clock, built, result, edited, saved,
          calls, hfile, hkey, hcred, horig, hres, hedits, hist, ulog, plog,
          mtfile, mtproof, mtorig, mtout, hver, kfile, kfirst, kproc, chk,
          bld, rin, cw>>

-----------------------------------------------------------------------------
(* Bounds *)

\* longest target file of the hashing scenario, in bytes
MaxFileLen == 2
\* longest normalized transcript of the session scenario, in bytes
MaxDocLen == 1
\* ingest_transcript calls in one run
MaxIngests == 1
\* build_artifacts calls in one run
MaxBuilds == 1
\* number of distinct signing identities
NumKeys == 2
\* latest time at which a call is made
MaxClock == 1
\* longest file of the Merkle scenario, in bytes
MaxTreeFileLen == 4
\* largest chunk_size a MerkleTree is constructed with
MaxChunkSize == 2
\* build_artifacts calls in one run of the rebuild scenario
MaxRebuilds == 2
\* direct update_manifest calls, and direct store_in_cas calls, in one run
MaxStoreCalls == 3
\* HashingService instances constructed over one keys_path
NumInstances == 2
\* concurrent store_in_cas calls with the same arguments
NumWriters == 2
\* concurrent build_artifacts calls on one slug
NumBuilders == 3

ByteVals == 0..1

RECURSIVE BytesUpTo(_)
BytesUpTo(n) ==
    IF n = 0 THEN {<<>>}
    ELSE LET S == BytesUpTo(n - 1)
         IN  S \cup {Append(s, b) : s \in {t \in S : Len(t) = n - 1}, b \in ByteVals}

Keys == 1..NumKeys

-----------------------------------------------------------------------------
(* JSON scalars *)

Str(v) == [ty |-> "str", v |-> v]
JInt(n) == [ty |-> "int", v |-> <<n>>]
JFloat(n) == [ty |-> "float", v |-> <<n>>]
Absent == [ty |-> "absent", v |-> <<>>]
Null == [ty |-> "null", v |-> <<>>]
List == [ty |-> "list", v |-> <<>>]

IsNumber(x) == x.ty \in {"int", "float", "bool"}

\* Python ==: numbers compare by value across int, float and bool; values of
\* different kinds are unequal
PyEq(a, b) == IF IsNumber(a) /\ IsNumber(b) THEN a.v = b.v ELSE a = b

TyCode(ty) ==
    CASE ty = "str" -> 1 [] ty = "int" -> 2 [] ty = "float" -> 3
      [] ty = "bool" -> 4 [] ty = "null" -> 5 [] ty = "list" -> 6
      [] ty = "dict" -> 7 [] OTHER -> 0

\* json.dumps of a scalar: the text shows the type and the whole payload
DumpScalar(x) == <<TyCode(x.ty), Len(x.v)>> \o x.v

\* names that occur as string values
TargetName == <<11>>            \* the file name of f
N_transcript == <<12>>          \* "transcript.normalized.json"
N_minutes == <<13>>             \* "minutes.json"
N_pdf == <<14>>                 \* "minutes.pdf"
Schema_Transcript == <<21>>     \* "Transcript_v1"
Schema_BoardMinutes == <<22>>   \* "BoardMinutes_v1"
Schema_Test == <<23>>           \* "TestSchema_v1"
S_ed25519 == <<31>>             \* "ed25519"
S_sha256 == <<32>>              \* "sha256"
S_other == <<39>>               \* some other text

Schemas == {Schema_Transcript, Schema_BoardMinutes, Schema_Test}

-----------------------------------------------------------------------------
(* hashlib, blake3, hex, base64, Ed25519 *)

\* hashlib.sha256(data).digest(): 32 raw bytes, one digest per input
Sha256Raw(data) == <<2>> \o data \o <<3>>
\* blake3.blake3(data).digest()
Blake3Raw(data) == <<4>> \o data \o <<5>>

\* .hexdigest(): lower-case hex text of the raw digest.  The first element
\* is the letter case of the text (0 lower, 1 upper, 9 not hex at all).
HexDigest(raw) == <<0>> \o raw
HexOk(h) == Len(h) >= 1 /\ h[1] \in {0, 1}
\* bytes.fromhex accepts either letter case
FromHex(h) == Tail(h)

\* the text "0" * 64: valid hex, the digest of no document
ZeroHash == HexDigest(<<6>>)

\* base64.b64encode(raw).  The first element is the value of the unused low
\* bits of the last symbol (0 as encoded), the second says whether the text
\* has a decodable length and padding.
B64Encode(raw) == <<0, 1>> \o raw
\* base64.b64decode(text) with the default validate=False succeeds on a
\* well-padded text and drops the unused low bits of the last symbol
B64Ok(t) == Len(t) >= 2 /\ t[2] = 1
B64Decode(t) == SubSeq(t, 3, Len(t))

\* bytes(signing_key.verify_key): the 32-byte public key of identity k
PublicKeyBytes(k) == <<7, k>>
\* nacl.signing.VerifyKey(bytes) raises unless given a 32-byte key
VerifyKeyOk(pk) == Len(pk) = 2 /\ pk[1] = 7 /\ pk[2] \in Keys
\* signing_key.sign(data).signature: deterministic in (key, data)
Ed25519Sign(k, data) == <<9, k>> \o data
\* verify_key.verify(data, signature) raises unless signature signs data
Ed25519Verify(pk, data, sig) == sig = Ed25519Sign(pk[2], data)

-----------------------------------------------------------------------------
(* hashing.py *)

\* The key file: absent, holding the 32 bytes of key k, or holding no bytes
\* (open(key_file, 'wb') truncates before anything is written).
NoKeyFile == [st |-> "absent", k |-> 0]
EmptyKeyFile == [st |-> "empty", k |-> 0]
KeyFile(k) == [st |-> "key", k |-> k]

\* a constructor that generates and persists a key whatever is on disk
get_or_create_signing_key_always_new(file, fresh) ==
    [file |-> KeyFile(fresh), key |-> fresh, exc |-> ""]

\* _get_or_create_signing_key run on its own; fresh is the key that
\* SigningKey.generate() would return.  SigningKey(key_bytes) raises unless
\* it is given 32 bytes.
get_or_create_signing_key(file, fresh) ==
    IF file.st = "absent"
    THEN [file |-> KeyFile(fresh), key |-> fresh, exc |-> ""]
    ELSE IF file.st = "key"
         THEN [file |-> file, key |-> file.k, exc |-> ""]
         ELSE [file |-> file, key |-> 0, exc |-> "ValueError"]

compute_sha256(data) == HexDigest(Sha256Raw(data))

compute_blake3(data) == HexDigest(Blake3Raw(data))

\* compute_file_hashes on an existing file holding data
compute_file_hashes(data) ==
    [sha256 |-> compute_sha256(data),
     blake3 |-> compute_blake3(data),
     size   |-> Len(data)]

sign_data(k, data) == B64Encode(Ed25519Sign(k, data))

\* any exception inside is caught and gives False
verify_signature(data, signature, public_key) ==
    /\ signature.ty = "str" /\ B64Ok(signature.v)
    /\ public_key.ty = "str" /\ B64Ok(public_key.v)
    /\ VerifyKeyOk(B64Decode(public_key.v))
    /\ Ed25519Verify(B64Decode(public_key.v), data, B64Decode(signature.v))

get_public_key(k) == B64Encode(PublicKeyBytes(k))

\* A credential is a dict with at most the keys below plus one foreign key
\* "note"; an Absent value means the key is not in the dict.  ty is the type
\* of the JSON value itself, "dict" unless it was replaced.
NoSigner == [ty |-> "absent", type |-> Absent, publicKey |-> Absent]

NoCred ==
    [ty |-> "absent", target |-> Absent, sha256 |-> Absent, blake3 |-> Absent,
     size |-> Absent, createdAt |-> Absent, schema |-> Absent,
     signer |-> NoSigner, signature |-> Absent, note |-> Absent]

Has(x) == x.ty # "absent"

Item(code, x) == IF Has(x) THEN <<code>> \o DumpScalar(x) ELSE <<>>

DumpSigner(s) ==
    IF ~Has(s) THEN <<>>
    ELSE IF s.ty = "dict"
         THEN <<107, 7>> \o Item(201, s.publicKey) \o Item(202, s.type) \o <<0>>
         ELSE <<107>> \o DumpScalar([ty |-> s.ty, v |-> <<>>])

\* json.dumps(d, sort_keys=True, separators=(',', ':')): the keys that are
\* present, in sorted order blake3 < createdAt < note < schema < sha256 <
\* signature < signer < size < target, each with its value
canonical_json(d) ==
    Item(101, d.blake3) \o Item(102, d.createdAt) \o Item(103, d.note)
    \o Item(104, d.schema) \o Item(105, d.sha256) \o Item(106, d.signature)
    \o DumpSigner(d.signer) \o Item(108, d.size) \o Item(109, d.target)

create_credential_size_as_text(k, data, target, schema, t) ==
    LET h == compute_file_hashes(data)
        credential ==
            [ty |-> "dict", target |-> Str(target), sha256 |-> Str(h.sha256),
             blake3 |-> Str(h.blake3), size |-> Str(<<h.size>>),
             createdAt |-> Str(<<t>>), schema |-> Str(schema),
             signer |-> [ty |-> "dict", type |-> Str(S_ed25519),
                         publicKey |-> Str(get_public_key(k))],
             signature |-> Absent, note |-> Absent]
    IN  [credential EXCEPT
            !.signature = Str(sign_data(k, canonical_json(credential)))]

\* create_credential for an existing file holding data
create_credential(k, data, target, schema, t) ==
    LET h == compute_file_hashes(data)
        credential ==
            [ty |-> "dict", target |-> Str(target), sha256 |-> Str(h.sha256),
             blake3 |-> Str(h.blake3), size |-> JInt(h.size),
             createdAt |-> Str(<<t>>), schema |-> Str(schema),
             signer |-> [ty |-> "dict", type |-> Str(S_ed25519),
                         publicKey |-> Str(get_public_key(k))],
             signature |-> Absent, note |-> Absent]
    IN  [credential EXCEPT
            !.signature = Str(sign_data(k, canonical_json(credential)))]

\* verify_credential(credential, file_path); exists says whether the file is
\* there.  Every exception (missing file, credential not a dict, missing
\* key, signer not a dict) gives False.
verify_credential(credential, exists, data) ==
    /\ exists
    /\ credential.ty = "dict"
    /\ Has(credential.sha256) /\ Has(credential.blake3) /\ Has(credential.size)
    /\ LET h == compute_file_hashes(data)
       IN  ~ \/ ~PyEq(credential.sha256, Str(h.sha256))
             \/ ~PyEq(credential.blake3, Str(h.blake3))
             \/ ~PyEq(credential.size, JInt(h.size))
    /\ Has(credential.signature)
    /\ credential.signer.ty = "dict" /\ Has(credential.signer.publicKey)
    /\ LET cred_copy == [credential EXCEPT !.signature = Absent]
       IN  verify_signature(canonical_json(cred_copy), credential.signature,
                            credential.signer.publicKey)

\* a verifier that checks the signature against its own public key
verify_credential_by_own_key(k, credential, exists, data) ==
    verify_credential([credential EXCEPT
                          !.signer = IF @.ty = "dict"
                                     THEN [@ EXCEPT !.publicKey =
                                              Str(get_public_key(k))]
                                     ELSE @],
                      exists, data)

\* verify_credential as a method of an instance whose signing_key is k: the
\* method reads self only to call compute_file_hashes and verify_signature
verify_credential_by(k, credential, exists, data) ==
    verify_credential(credential, exists, data)

-----------------------------------------------------------------------------
(* merkle.py *)

Min(a, b) == IF a < b THEN a ELSE b

\* MerkleTree.__init__ default chunk_size; stands for 65536, scaled to the
\* size of the model's documents
DefaultChunkSize == 2

\* _chunk_data without the replacement of no chunk by one empty chunk
chunk_data_keeping_no_chunk(data, chunk_size) ==
    LET n == IF chunk_size > 0
             THEN (Len(data) + chunk_size - 1) \div chunk_size ELSE 0
    IN  [i \in 1..n |->
            SubSeq(data, (i - 1) * chunk_size + 1,
                   IF i * chunk_size < Len(data) THEN i * chunk_size
                   ELSE Len(data))]

\* _chunk_data: range(0, len(data), chunk_size) for a non-zero integer
\* chunk_size (a negative step gives an empty range); no chunk at all is
\* replaced by one empty chunk
chunk_data(data, chunk_size) ==
    LET n == IF chunk_size > 0
             THEN (Len(data) + chunk_size - 1) \div chunk_size ELSE 0
    IN  IF n = 0 THEN << <<>> >>
        ELSE [i \in 1..n |->
                SubSeq(data, (i - 1) * chunk_size + 1,
                       Min(i * chunk_size, Len(data)))]

hash_chunk(chunk) == HexDigest(Sha256Raw(chunk))

\* _hash_pair: sha256 over the two decoded digests, concatenated
hash_pair(left, right) == HexDigest(Sha256Raw(FromHex(left) \o FromHex(right)))

\* a pass that pairs the last node of an odd level with a fixed padding hash
NextLevel_zero_padded(current_level) ==
    [j \in 1..((Len(current_level) + 1) \div 2) |->
        hash_pair(current_level[2 * j - 1],
                  IF 2 * j <= Len(current_level)
                  THEN current_level[2 * j] ELSE hash_chunk(<<>>))]

\* one pass of the while loop of _build_tree: pairs (2i, 2i+1), the last
\* node of an odd level paired with itself
NextLevel(current_level) ==
    [j \in 1..((Len(current_level) + 1) \div 2) |->
        hash_pair(current_level[2 * j - 1],
                  IF 2 * j <= Len(current_level)
                  THEN current_level[2 * j] ELSE current_level[2 * j - 1])]

RECURSIVE TreeFrom(_)
TreeFrom(current_level) ==
    IF Len(current_level) <= 1 THEN <<current_level>>
    ELSE <<current_level>> \o TreeFrom(NextLevel(current_level))

\* _build_tree: the levels bottom-up and the root
build_tree(leaves) ==
    IF leaves = <<>> THEN [tree |-> <<>>, root |-> <<>>]
    ELSE LET t == TreeFrom(leaves)
         IN  [tree |-> t, root |-> t[Len(t)][1]]

\* the loop of _generate_inclusion_proof from level (1-based) upwards;
\* current_index is 0-based as in the code
RECURSIVE InclusionPath(_, _, _)
InclusionPath(tree, level, current_index) ==
    IF level > Len(tree) - 1 THEN [offsets |-> <<>>, siblings |-> <<>>]
    ELSE LET level_size == Len(tree[level])
             even == current_index % 2 = 0
             sibling_index == IF even THEN current_index + 1
                              ELSE current_index - 1
             sibling == IF sibling_index < level_size
                        THEN tree[level][sibling_index + 1]
                        ELSE tree[level][current_index + 1]
             rest == InclusionPath(tree, level + 1, current_index \div 2)
         IN  [offsets  |-> <<IF even THEN "right" ELSE "left">> \o rest.offsets,
              siblings |-> <<sibling>> \o rest.siblings]

\* An inclusion dict: leafIndex, offsets, siblings.  A missing list and an
\* empty list are both <<>> (verify_inclusion reads them with .get(key, [])).
NoInclusion ==
    [ty |-> "absent", leafIndex |-> Absent, offsets |-> <<>>, siblings |-> <<>>]

EmptyInclusion == [NoInclusion EXCEPT !.ty = "dict"]

\* a generator that returns the path of leaf 0 whatever the index
generate_inclusion_proof_for_first(tree, leaves, leaf_index) ==
    IF leaf_index >= Len(leaves) THEN EmptyInclusion
    ELSE LET p == InclusionPath(tree, 1, 0)
         IN  [ty |-> "dict", leafIndex |-> JInt(leaf_index),
              offsets |-> p.offsets, siblings |-> p.siblings]

generate_inclusion_proof(tree, leaves, leaf_index) ==
    IF leaf_index >= Len(leaves) THEN EmptyInclusion
    ELSE LET p == InclusionPath(tree, 1, leaf_index)
         IN  [ty |-> "dict", leafIndex |-> JInt(leaf_index),
              offsets |-> p.offsets, siblings |-> p.siblings]

\* the for loop of verify_inclusion over zip(siblings, offsets), from pair i
RECURSIVE Replay(_, _, _, _)
Replay(current, siblings, offsets, i) ==
    IF i > Min(Len(siblings), Len(offsets)) THEN [ok |-> TRUE, value |-> current]
    ELSE IF ~(HexOk(current) /\ HexOk(siblings[i]))
         THEN [ok |-> FALSE, value |-> current]
         ELSE Replay(IF offsets[i] = "right"
                     THEN hash_pair(current, siblings[i])
                     ELSE hash_pair(siblings[i], current),
                     siblings, offsets, i + 1)

\* verify_inclusion: an exception (proof not a dict, text that is not hex)
\* gives False
verify_inclusion(leaf, proof, root) ==
    /\ proof.ty = "dict"
    /\ LET r == Replay(leaf, proof.siblings, proof.offsets, 1)
       IN  r.ok /\ r.value = root

\* A proof is a dict with the keys below plus one foreign key "note".
NoLeaves == [ty |-> "absent", items |-> <<>>]

NoProof ==
    [ty |-> "absent", docPath |-> Absent, chunkSize |-> Absent,
     leafAlgo |-> Absent, leaves |-> NoLeaves, merkleRoot |-> Absent,
     inclusion |-> NoInclusion, note |-> Absent]

\* build_from_file on an existing file holding data, by a tree of chunk_size
build_from_file(data, chunk_size, name) ==
    LET chunks == chunk_data(data, chunk_size)
        leaves == [i \in 1..Len(chunks) |-> hash_chunk(chunks[i])]
        tr == build_tree(leaves)
        inclusion == IF leaves # <<>>
                     THEN generate_inclusion_proof(tr.tree, leaves, 0)
                     ELSE EmptyInclusion
    IN  [ty |-> "dict", docPath |-> Str(name), chunkSize |-> JInt(chunk_size),
         leafAlgo |-> Str(S_sha256),
         leaves |-> [ty |-> "list", items |-> leaves],
         merkleRoot |-> Str(tr.root),
         inclusion |-> inclusion, note |-> Absent]

\* proof.get("chunkSize", 65536) is usable as the step of range() when it is
\* a non-zero int (or bool); otherwise range() raises
ChunkSizeOk(x) == ~Has(x) \/ (x.ty \in {"int", "bool"} /\ x.v[1] # 0)

\* a verifier that chunks with its own default
ChunkSizeOf_default(x) == DefaultChunkSize

ChunkSizeOf(x) == IF Has(x) THEN x.v[1] ELSE DefaultChunkSize

\* verify_proof(file_path, proof); exists says whether the file is there.
\* Every exception (proof not a dict, unusable chunkSize, missing file,
\* missing merkleRoot) gives False.
verify_proof(exists, data, proof) ==
    /\ proof.ty = "dict"
    /\ ChunkSizeOk(proof.chunkSize)
    /\ exists
    /\ Has(proof.merkleRoot)
    /\ LET rebuilt == build_from_file(data, ChunkSizeOf(proof.chunkSize), N_minutes)
       IN  PyEq(rebuilt.merkleRoot, proof.merkleRoot)

-----------------------------------------------------------------------------
(* storage.py *)

\* A file of bytes (transcript.normalized.json, minutes.json as hashed).
NoFile == [st |-> "absent", b |-> <<>>]
BytesFile(b) == [st |-> "bytes", b |-> b]

\* A JSON file: absent, text that does not parse ("garbage"), or the text of
\* a JSON value.  fmt is the layout of the text (0: indent=2 as json.dumps
\* writes it here, 1: any other layout of the same value).
JsonFile(value) == [st |-> "json", fmt |-> 0, json |-> value]

\* store_artifact of a dict: json.dumps(content, indent=2) written as text
store_artifact(content) == JsonFile(content)

\* read_artifact: the exception it raises ("" for none) and the parsed
\* value; json.loads ignores the layout
read_artifact(file) ==
    [exc |-> IF file.st = "absent" THEN "FileNotFoundError"
             ELSE IF file.st = "garbage" THEN "JSONDecodeError" ELSE "",
     value |-> file.json]

\* store_in_cas: written only when cas/<algo>/<hash> does not exist
CasHas(c, algo, hash_value) ==
    \E o \in c : o.algo = algo /\ o.hash = hash_value

\* a store that writes whether or not the object exists
store_in_cas_overwriting(c, algo, hash_value, content) ==
    {o \in c : ~(o.algo = algo /\ o.hash = hash_value)}
        \cup {[algo |-> algo, hash |-> hash_value, content |-> content]}

store_in_cas(c, algo, hash_value, content) ==
    IF ~CasHas(c, algo, hash_value)
    THEN c \cup {[algo |-> algo, hash |-> hash_value, content |-> content]}
    ELSE c

\* The manifest file: absent or the dict {slug, createdAt, updatedAt,
\* artifacts}.  An entry is {type, fileName, path, createdAt} plus the
\* metadata (here the schema tag, "" when there is none).
NoManifest ==
    [st |-> "absent", createdAt |-> 0, updatedAt |-> 0, artifacts |-> <<>>]

\* a create_manifest that ignores the manifest already on disk
create_manifest_fresh(existing, t) ==
    [st |-> "json", createdAt |-> t, updatedAt |-> t, artifacts |-> <<>>]

\* create_manifest: a fresh dict with no artifacts that keeps only the
\* createdAt of the manifest already on disk
create_manifest(existing, t) ==
    [st |-> "json",
     createdAt |-> IF existing.st = "json" THEN existing.createdAt ELSE t,
     updatedAt |-> t,
     artifacts |-> <<>>]

\* update_manifest: the manifest written back to manifest.json
update_manifest(existing, artifact_type, file_name, schema, t) ==
    LET manifest == create_manifest(existing, t)
        artifact_entry == [type |-> artifact_type, fileName |-> file_name,
                           createdAt |-> t, schema |-> schema]
        kept == SelectSeq(manifest.artifacts,
                          LAMBDA a : a.fileName # file_name)
    IN  [manifest EXCEPT !.artifacts = Append(kept, artifact_entry),
                         !.updatedAt = t]

\* get_manifest: the stored dict, or a fresh one when there is no file
get_manifest(existing, t) ==
    IF existing.st = "absent" THEN create_manifest(existing, t) ELSE existing

-----------------------------------------------------------------------------
(* anchor.py, structure.py: collaborators of the orchestrator *)

\* An anchor receipt dict; only txHash is read back by the core.
NoReceipt == [ty |-> "absent", txHash |-> Absent]
S_tx == <<41>>                  \* a transaction hash as hex text
\* anchor_document's receipt: {txHash, blockNumber, contractAddress, chainId}
ChainReceipt == [ty |-> "dict", txHash |-> Str(S_tx)]

\* verify_anchor(merkle_root, tx_hash): None without a contract or when the
\* lookup raises; otherwise the logged root, when a log equals merkle_root.
\* chain is what the ledger does: "error", "nomatch" or "match".
verify_anchor(cfg, chain, merkle_root) ==
    IF ~cfg.enabled \/ ~cfg.contract THEN Null
    ELSE IF chain = "match" /\ merkle_root.ty = "str" THEN merkle_root
    ELSE Null

\* structure_transcript followed by json.dumps: the bytes of minutes.json.
\* The heuristics keep the title (first byte, a default when there is none)
\* and the number of speaking turns, and record the source file name.
structure_transcript(transcript, original_file) ==
    << IF Len(transcript) > 0 THEN transcript[1] ELSE 0,
       Len(transcript) % 2,
       IF original_file = "transcript.normalized.json" THEN 0 ELSE 1 >>

-----------------------------------------------------------------------------
(* service.py *)

NoJson(value) == [st |-> "absent", fmt |-> 0, json |-> value]

NoPacket ==
    [st |-> "absent", minutes |-> <<>>, credential |-> NoCred,
     proof |-> NoProof, anchorReceipt |-> NoReceipt]

EmptyDir ==
    [transcript |-> NoFile, minutes |-> NoFile,
     tcred |-> NoJson(NoCred), mcred |-> NoJson(NoCred),
     tproof |-> NoJson(NoProof), mproof |-> NoJson(NoProof),
     receipt |-> NoJson(NoReceipt), packet |-> NoPacket,
     pdf |-> FALSE, manifest |-> NoManifest]

\* ingest_transcript: the parsed transcript stored, then recorded in the
\* manifest with its schema tag
ingest_transcript(f, transcript, t) ==
    [f EXCEPT
        !.transcript = BytesFile(transcript),
        !.manifest = update_manifest(f.manifest, "transcript",
                        "transcript.normalized.json", "Transcript_v1", t)]

\* build_artifacts raises before writing anything when the transcript
\* cannot be read or the manifest lists no artifact (artifacts[0])
BuildCanStart(f) ==
    /\ f.transcript.st = "bytes"
    /\ f.manifest.st = "json" /\ Len(f.manifest.artifacts) >= 1

\* build_artifacts up to and including the packet (lines 70-155): the
\* files and CAS objects written.  got_receipt: anchor_document returned a
\* receipt.
BuildFiles(f, c, k, cfg, got_receipt, t) ==
    LET transcript == f.transcript.b
        original_file == get_manifest(f.manifest, t).artifacts[1].fileName
        minutes == structure_transcript(transcript, original_file)
        transcript_cred ==
            create_credential(k, transcript, N_transcript, Schema_Transcript, t)
        minutes_cred ==
            create_credential(k, minutes, N_minutes, Schema_BoardMinutes, t)
        c1 == store_in_cas(c, "sha256", transcript_cred.sha256.v, transcript)
        c2 == store_in_cas(c1, "blake3", transcript_cred.blake3.v, transcript)
        c3 == store_in_cas(c2, "sha256", minutes_cred.sha256.v, minutes)
        c4 == store_in_cas(c3, "blake3", minutes_cred.blake3.v, minutes)
        transcript_proof ==
            build_from_file(transcript, DefaultChunkSize, N_transcript)
        minutes_proof == build_from_file(minutes, DefaultChunkSize, N_minutes)
        anchored == cfg.enabled /\ cfg.contract /\ got_receipt
        packet == [st |-> "json", minutes |-> minutes,
                   credential |-> minutes_cred, proof |-> minutes_proof,
                   anchorReceipt |-> IF anchored THEN ChainReceipt
                                     ELSE NoReceipt]
    IN  [files |->
            [f EXCEPT
                !.minutes = BytesFile(minutes),
                !.tcred = store_artifact(transcript_cred),
                !.mcred = store_artifact(minutes_cred),
                !.tproof = store_artifact(transcript_proof),
                !.mproof = store_artifact(minutes_proof),
                !.receipt = IF anchored THEN store_artifact(ChainReceipt) ELSE @,
                !.packet = packet],
         cas |-> c4,
         anchored |-> anchored]

\* the loop over paths.items() (lines 167-173), in insertion order
BuildManifest(m, anchored, t) ==
    LET m1 == update_manifest(m, "minutes", "minutes.json", "", t)
        m2 == update_manifest(m1, "transcript_cred", "transcript.cred.json", "", t)
        m3 == update_manifest(m2, "minutes_cred", "minutes.cred.json", "", t)
        m4 == update_manifest(m3, "transcript_proof", "transcript.proof.json", "", t)
        m5 == update_manifest(m4, "minutes_proof", "minutes.proof.json", "", t)
        m6 == IF anchored
              THEN update_manifest(m5, "anchor_receipt", "anchor_receipt.json", "", t)
              ELSE m5
        m7 == update_manifest(m6, "packet", "minutes.packet.json", "", t)
    IN  update_manifest(m7, "pdf", "minutes.pdf", "", t)

\* VerificationResult as returned; caught is the exception the handler of
\* verify_artifacts swallowed and propagated the one it let through ("" for
\* none).  The empty text "" is Str(<<>>), None is Null.
ErrorResult(exc) ==
    [propagated |-> "", caught |-> exc, valid |-> FALSE,
     localRoot |-> Str(<<>>), onChainRoot |-> Null,
     docHash |-> Str(<<>>), txHash |-> Null]

NoResult == [ErrorResult("") EXCEPT !.propagated = "not called"]

\* minutes_path = session_dir / "minutes.json": the file both checks read
minutes_path_in_cas(f, c, cred) ==
    IF cred.ty = "dict" /\ cred.sha256.ty = "str"
          /\ CasHas(c, "sha256", cred.sha256.v)
    THEN BytesFile((CHOOSE o \in c : o.algo = "sha256"
                                     /\ o.hash = cred.sha256.v).content)
    ELSE NoFile

minutes_path(f, c, cred) == f.minutes

\* x[key] on a parsed JSON value: TypeError unless x is a dict, KeyError
\* when the key is missing
Subscript(x, field) ==
    IF x.ty # "dict" THEN "TypeError"
    ELSE IF ~Has(field) THEN "KeyError" ELSE ""

\* pydantic accepts a str for a str field and a str or None for Optional[str]
IsStr(x) == x.ty = "str"
IsOptStr(x) == x.ty \in {"str", "null", "absent"}

\* The try block of verify_artifacts (lines 181-212): the exception that
\* leaves it ("" for none) and the result it builds.
VerifyTry(f, c, cfg, chain) ==
    LET cred_read == read_artifact(f.mcred)
        proof_read == read_artifact(f.mproof)
        minutes_cred == cred_read.value
        minutes_proof == proof_read.value
        target == minutes_path(f, c, minutes_cred)
        cred_valid ==
            verify_credential(minutes_cred, target.st = "bytes", target.b)
        proof_valid ==
            verify_proof(target.st = "bytes", target.b, minutes_proof)
        \* inner try: any exception is passed over
        receipt_read == read_artifact(f.receipt)
        receipt == receipt_read.value
        got_tx == cfg.enabled /\ receipt_read.exc = "" /\ receipt.ty = "dict"
        tx_hash == IF got_tx /\ Has(receipt.txHash) THEN receipt.txHash
                   ELSE Null
        on_chain_root ==
            IF got_tx /\ Subscript(minutes_proof, minutes_proof.merkleRoot) = ""
            THEN verify_anchor(cfg, chain, minutes_proof.merkleRoot)
            ELSE Null
        root_exc == Subscript(minutes_proof, minutes_proof.merkleRoot)
        hash_exc == Subscript(minutes_cred, minutes_cred.sha256)
        exc == IF cred_read.exc # "" THEN cred_read.exc
               ELSE IF proof_read.exc # "" THEN proof_read.exc
               ELSE IF root_exc # "" THEN root_exc
               ELSE IF hash_exc # "" THEN hash_exc
               ELSE IF ~(IsStr(minutes_proof.merkleRoot)
                         /\ IsOptStr(on_chain_root)
                         /\ IsStr(minutes_cred.sha256)
                         /\ IsOptStr(tx_hash))
                    THEN "ValidationError"
               ELSE ""
    IN  [exc |-> exc,
         cred_valid |-> cred_valid,
         proof_valid |-> proof_valid,
         res |-> [propagated |-> "", caught |-> "",
                  valid |-> cred_valid /\ proof_valid,
                  localRoot |-> minutes_proof.merkleRoot,
                  onChainRoot |-> on_chain_root,
                  docHash |-> minutes_cred.sha256,
                  txHash |-> tx_hash]]

verify_artifacts_catching_not_found(f, c, cfg, chain) ==
    LET t == VerifyTry(f, c, cfg, chain)
    IN  IF t.exc = "" THEN t.res
        ELSE IF t.exc = "FileNotFoundError" THEN ErrorResult(t.exc)
        ELSE [ErrorResult("") EXCEPT !.propagated = t.exc]

\* verify_artifacts: except Exception turns every exception of the try
\* block into the all-empty invalid result
verify_artifacts(f, c, cfg, chain) ==
    LET t == VerifyTry(f, c, cfg, chain)
    IN  IF t.exc = "" THEN t.res ELSE ErrorResult(t.exc)

-----------------------------------------------------------------------------
(* Modifications a third party can make to stored or held values *)

\* positions of a text that are tried for a change of one character
EditPositions(v) == {i \in 1..Len(v) : i \in {1, 2, 4} \/ i = Len(v)}

\* the texts that differ from v in exactly one character
TextEdits(v) ==
    {t \in {[v EXCEPT ![i] = c] : i \in EditPositions(v), c \in {0, 1, 2}} :
        t # v}

\* the values a stored scalar x can be replaced by: removed, another type,
\* another text ("0" * 64 among them), the same number as a float, or a text
\* differing in one character
ScalarEdits(x) ==
    ({Absent, JInt(0), Str(ZeroHash)}
       \cup (IF x.ty = "int" THEN {JFloat(x.v[1]), JInt(x.v[1] + 1)} ELSE {})
       \cup (IF x.ty = "str" THEN {Str(t) : t \in TextEdits(x.v)} ELSE {}))
    \ {x}

SignerEdits(s) ==
    ({NoSigner, [NoSigner EXCEPT !.ty = "str"]}
       \cup (IF s.ty = "dict"
             THEN {[s EXCEPT !.type = x] : x \in ScalarEdits(s.type)}
                  \cup {[s EXCEPT !.publicKey = x] : x \in ScalarEdits(s.publicKey)}
             ELSE {}))
    \ {s}

ScalarFields == {"target", "sha256", "blake3", "size", "createdAt", "schema",
                 "signature", "note"}

\* the credentials that differ from dict c in exactly one field
CredEdits(c) ==
    UNION {{[c EXCEPT ![f] = x] : x \in ScalarEdits(c[f])} : f \in ScalarFields}
    \cup {[c EXCEPT !.signer = s] : s \in SignerEdits(c.signer)}

\* the lists that differ from items in one element, or lack the last one
ListEdits(items) ==
    {[items EXCEPT ![i] = t] : i \in 1..Len(items), t \in {ZeroHash, S_other}}
    \cup (IF items # <<>> THEN {SubSeq(items, 1, Len(items) - 1)} ELSE {})

InclusionEdits(inc) ==
    {NoInclusion, [inc EXCEPT !.leafIndex = JInt(1)]}
    \cup {[inc EXCEPT !.siblings = l] : l \in ListEdits(inc.siblings)}
    \cup {[inc EXCEPT !.offsets = Append(@, "left")]}

ProofScalarFields == {"docPath", "chunkSize", "leafAlgo", "merkleRoot", "note"}

\* the proofs that differ from dict p in exactly one field
ProofEdits(p) ==
    UNION {{[p EXCEPT ![f] = x] : x \in ScalarEdits(p[f])} : f \in ProofScalarFields}
    \cup {[p EXCEPT !.leaves = [ty |-> "list", items |-> l]] :
            l \in ListEdits(p.leaves.items)}
    \cup {[p EXCEPT !.leaves = NoLeaves]}
    \cup {[p EXCEPT !.inclusion = i] : i \in InclusionEdits(p.inclusion)}

ReceiptEdits(r) ==
    {[ty |-> "dict", txHash |-> x] :
        x \in {Absent, Null, JInt(0), Str(S_tx), Str(S_other)}} \ {r}

\* what a JSON file can be overwritten with: nothing (deleted), text that is
\* not JSON, the same value in another layout, a value that is not a dict,
\* or one of the given values
JsonFileEdits(file, values) ==
    ({[file EXCEPT !.st = "absent"], [file EXCEPT !.st = "garbage"]}
       \cup {[st |-> "json", fmt |-> 1, json |-> file.json]}
       \cup {[st |-> "json", fmt |-> 0, json |-> [file.json EXCEPT !.ty = "list"]]}
       \cup {[st |-> "json", fmt |-> 0, json |-> v] : v \in values})
    \ {file}

BytesFileEdits(file, n) ==
    ({NoFile} \cup {BytesFile(b) : b \in BytesUpTo(n)}) \ {file}

-----------------------------------------------------------------------------
(* Hashing scenario: one file, one HashingService, one credential *)

InitHash ==
    /\ hfile \in BytesUpTo(MaxFileLen)
    /\ hkey \in Keys
    /\ hcred = NoCred
    /\ horig = [file |-> <<>>, cred |-> NoCred]
    /\ hres = "none"
    /\ hedits = 0
    /\ hver = 0

\* cred = service.create_credential(f, schema)
HCreate(schema, t) ==
    /\ hcred = NoCred
    /\ hcred' = create_credential(hkey, hfile, TargetName, schema, t)
    /\ horig' = [file |-> hfile, cred |-> hcred']
    /\ UNCHANGED <<hfile, hkey, hres, hedits, hver>>
    /\ UNCHANGED <<svars, lvars, mtvars, xvars>>

\* the file is overwritten with other bytes
HEditFile(b) ==
    /\ hcred # NoCred /\ hedits = 0
    /\ b # hfile
    /\ hfile' = b
    /\ hedits' = hedits + 1
    /\ hres' = "none"
    /\ hver' = 0
    /\ UNCHANGED <<hkey, hcred, horig>>
    /\ UNCHANGED <<svars, lvars, mtvars, xvars>>

\* one field of the credential is changed, added or removed
HEditCred(c) ==
    /\ hcred # NoCred /\ hedits = 0
    /\ hcred' = c
    /\ hedits' = hedits + 1
    /\ hres' = "none"
    /\ hver' = 0
    /\ UNCHANGED <<hfile, hkey, horig>>
    /\ UNCHANGED <<svars, lvars, mtvars, xvars>>

\* verifier.verify_credential(cred, f) by an instance that holds key k
HVerify(k) ==
    /\ hcred # NoCred
    /\ hres' = IF verify_credential_by(k, hcred, TRUE, hfile)
               THEN "true" ELSE "false"
    /\ hver' = k
    /\ UNCHANGED <<hfile, hkey, hcred, horig, hedits>>
    /\ UNCHANGED <<svars, lvars, mtvars, xvars>>

NextHash ==
    \/ \E schema \in Schemas, t \in 0..MaxClock : HCreate(schema, t)
    \/ \E b \in BytesUpTo(MaxFileLen) : HEditFile(b)
    \/ \E c \in CredEdits(hcred) : HEditCred(c)
    \/ \E k \in Keys : HVerify(k)

-----------------------------------------------------------------------------
(* Merkle scenario: one file, one tree built from it, one proof *)

\* the one MerkleTree call the caller makes on the file and proof at hand:
\* verify_proof, the inclusion round trip for leaf i, or verify_inclusion of
\* a presented value x with a presented proof p
NoCall == [op |-> "none", ok |-> FALSE, i |-> 0, x |-> <<>>, p |-> NoInclusion]

InitMerkle ==
    /\ mtfile \in BytesUpTo(MaxTreeFileLen)
    /\ mtproof = NoProof
    /\ mtorig = [file |-> <<>>, proof |-> NoProof]
    /\ mtout = NoCall

\* proof = MerkleTree(chunk_size).build_from_file(path)
MBuild(chunk_size) ==
    /\ mtproof = NoProof
    /\ mtproof' = build_from_file(mtfile, chunk_size, TargetName)
    /\ mtorig' = [file |-> mtfile, proof |-> mtproof']
    /\ mtout' = NoCall
    /\ UNCHANGED mtfile
    /\ UNCHANGED <<svars, hvars, lvars, xvars>>

\* the file is replaced by other bytes
MEditFile(b) ==
    /\ mtproof # NoProof /\ mtfile = mtorig.file /\ mtproof = mtorig.proof
    /\ mtout = NoCall
    /\ b # mtfile
    /\ mtfile' = b
    /\ mtout' = NoCall
    /\ UNCHANGED <<mtproof, mtorig>>
    /\ UNCHANGED <<svars, hvars, lvars, xvars>>

\* one value of the proof dict is changed (test_merkle.py: merkleRoot)
MEditProof(p) ==
    /\ mtproof # NoProof /\ mtfile = mtorig.file /\ mtproof = mtorig.proof
    /\ mtout = NoCall
    /\ mtproof' = p
    /\ mtout' = NoCall
    /\ UNCHANGED <<mtfile, mtorig>>
    /\ UNCHANGED <<svars, hvars, lvars, xvars>>

\* MerkleTree.verify_proof(path, proof)
MVerifyProof ==
    /\ mtproof # NoProof
    /\ mtout = NoCall
    /\ mtout' = [NoCall EXCEPT !.op = "verify_proof",
                               !.ok = verify_proof(TRUE, mtfile, mtproof)]
    /\ UNCHANGED <<mtfile, mtproof, mtorig>>
    /\ UNCHANGED <<svars, hvars, lvars, xvars>>

\* the tree object after build_from_file: leaves, levels and root
BuiltLeaves == mtorig.proof.leaves.items
BuiltTree == build_tree(BuiltLeaves)

\* tree.verify_inclusion(leaves[i], tree._generate_inclusion_proof(i), root)
MInclusion(i) ==
    /\ mtproof # NoProof /\ mtfile = mtorig.file /\ mtproof = mtorig.proof
    /\ mtout = NoCall
    /\ LET p == generate_inclusion_proof(BuiltTree.tree, BuiltLeaves, i)
       IN  mtout' = [op |-> "inclusion", i |-> i, x |-> BuiltLeaves[i + 1],
                     p |-> p,
                     ok |-> verify_inclusion(BuiltLeaves[i + 1], p,
                                             BuiltTree.root)]
    /\ UNCHANGED <<mtfile, mtproof, mtorig>>
    /\ UNCHANGED <<svars, hvars, lvars, xvars>>

\* every node of the built tree, the root included
TreeNodes ==
    UNION {{BuiltTree.tree[l][j] : j \in 1..Len(BuiltTree.tree[l])} :
              l \in 1..Len(BuiltTree.tree)}

\* suffix of a proof: the pairs from position k on
ProofFrom(p, k) ==
    [p EXCEPT !.offsets = SubSeq(@, k, Len(@)),
              !.siblings = SubSeq(@, k, Len(@))]

\* the proofs a third party can present: none, {}, the path of a leaf, a
\* path without its first pairs, a path with one offset fewer than siblings
PresentedProofs ==
    LET paths == {generate_inclusion_proof(BuiltTree.tree, BuiltLeaves, i) :
                      i \in 0..(Len(BuiltLeaves) - 1)}
    IN  {NoInclusion, EmptyInclusion}
        \cup paths
        \cup UNION {{ProofFrom(p, k) : k \in 2..(Len(p.siblings) + 1)} :
                       p \in paths}
        \cup {[p EXCEPT !.offsets = SubSeq(@, 1, Len(@) - 1)] :
                 p \in {q \in paths : Len(q.offsets) > 0}}

\* tree.verify_inclusion(x, p, root) with x and p supplied by a third party
MPresent(x, p) ==
    /\ mtproof # NoProof /\ mtfile = mtorig.file /\ mtproof = mtorig.proof
    /\ mtout = NoCall
    /\ mtout' = [op |-> "present", i |-> 0, x |-> x, p |-> p,
                 ok |-> verify_inclusion(x, p, BuiltTree.root)]
    /\ UNCHANGED <<mtfile, mtproof, mtorig>>
    /\ UNCHANGED <<svars, hvars, lvars, xvars>>

NextMerkle ==
    \/ \E chunk_size \in 1..MaxChunkSize : MBuild(chunk_size)
    \/ \E b \in BytesUpTo(MaxTreeFileLen) : MEditFile(b)
    \/ \E p \in ProofEdits(mtproof) : MEditProof(p)
    \/ MVerifyProof
    \/ \E i \in 0..(Len(BuiltLeaves) - 1) : MInclusion(i)
    \/ \E x \in TreeNodes \cup {ZeroHash} : \E p \in PresentedProofs :
          MPresent(x, p)

-----------------------------------------------------------------------------
(* Store scenario: update_manifest and store_in_cas called on one slug *)

ArtifactTypes == {"transcript", "minutes"}
FileNames == {"transcript.normalized.json", "minutes.json"}
\* metadata: None, or {"schema": ...}
Metadata == {"", "Transcript_v1"}
CasAlgos == {"sha256", "blake3"}
\* hash values and contents passed to store_in_cas; the store does not
\* check that the one is the hash of the other
CasHashes == {compute_sha256(<<0>>), compute_sha256(<<1>>)}
CasContents == {<<0>>, <<1>>}

\* storage.update_manifest(slug, artifact_type, file_name, metadata) at
\* time t; the log keeps the call and the artifacts list it found
UpdateManifest(artifact_type, file_name, schema, t) ==
    /\ Len(ulog) + Len(plog) < MaxStoreCalls
    /\ fs' = [fs EXCEPT !.manifest =
                 update_manifest(@, artifact_type, file_name, schema, t)]
    /\ ulog' = Append(ulog, [type |-> artifact_type, fileName |-> file_name,
                             schema |-> schema, t |-> t,
                             found |-> fs.manifest.artifacts])
    /\ dir' = TRUE
    /\ clock' = t
    /\ UNCHANGED <<cas, anchor, key, built, result, edited, saved, calls, hist>>
    /\ UNCHANGED <<plog, hvars, mtvars, xvars>>

\* storage.store_in_cas(slug, algo, hash_value, content)
StoreInCas(algo, hash_value, content) ==
    /\ Len(ulog) + Len(plog) < MaxStoreCalls
    /\ cas' = store_in_cas(cas, algo, hash_value, content)
    /\ plog' = Append(plog, [algo |-> algo, hash |-> hash_value,
                             content |-> content])
    /\ dir' = TRUE
    /\ UNCHANGED <<fs, anchor, key, clock, built, result, edited, saved, calls,
                   hist>>
    /\ UNCHANGED <<ulog, hvars, mtvars, xvars>>

NextStore ==
    \/ \E artifact_type \in ArtifactTypes, file_name \in FileNames,
          schema \in Metadata, t \in clock..MaxClock :
          UpdateManifest(artifact_type, file_name, schema, t)
    \/ \E algo \in CasAlgos, hash_value \in CasHashes, content \in CasContents :
          StoreInCas(algo, hash_value, content)

-----------------------------------------------------------------------------
(* Session scenario: one slug, ingested, built, modified, verified *)

AnchorConfigs ==
    {[enabled |-> FALSE, contract |-> FALSE],
     [enabled |-> TRUE, contract |-> FALSE],
     [enabled |-> TRUE, contract |-> TRUE]}

NoBuild == [ok |-> FALSE, minutes |-> NoFile, mcred |-> NoJson(NoCred),
            mproof |-> NoJson(NoProof)]

\* no ingest_transcript or build_artifacts call was made yet
NoHist == [before |-> "none", last |-> "none", prev |-> NoBuild,
           anchored |-> FALSE]

InitSession ==
    /\ dir = FALSE
    /\ fs = EmptyDir
    /\ cas = {}
    /\ anchor \in AnchorConfigs
    /\ key = 1
    /\ clock = 0
    /\ built = NoBuild
    /\ result = NoResult
    /\ edited = "none"
    /\ saved = EmptyDir
    /\ calls = [ingest |-> 0, build |-> 0]
    /\ hist = NoHist

\* service.ingest_transcript(path, ...) called at time t; transcript is what
\* the parser made of the raw file
Ingest(transcript, t) ==
    /\ edited = "none"
    /\ calls.ingest < MaxIngests
    /\ calls' = [calls EXCEPT !.ingest = @ + 1]
    /\ dir' = TRUE
    /\ fs' = ingest_transcript(fs, transcript, t)
    /\ clock' = t
    /\ result' = NoResult
    /\ hist' = [hist EXCEPT !.before = hist.last, !.last = "ingest"]
    /\ UNCHANGED <<cas, anchor, key, built, edited, saved>>
    /\ UNCHANGED <<hvars, lvars, mtvars, xvars>>

\* service.build_artifacts(slug) raising at lines 70-73
BuildRaisesAtStart ==
    /\ ~BuildCanStart(fs)
    /\ dir' = TRUE
    /\ UNCHANGED <<fs, cas, anchor, key, clock, built, result, edited, saved,
                   calls, hist>>
    /\ UNCHANGED <<hvars, lvars, mtvars, xvars>>

\* service.build_artifacts(slug) called at time t; pdf_ok: the renderer did
\* not raise.  When it raises, everything up to the packet stays written and
\* the manifest is not updated.
BuildStep(limit, got_receipt, pdf_ok, t) ==
    /\ edited = "none"
    /\ BuildCanStart(fs)
    /\ calls.build < limit
    /\ calls' = [calls EXCEPT !.build = @ + 1]
    /\ LET w == BuildFiles(fs, cas, key, anchor, got_receipt, t)
           done == [w.files EXCEPT
                       !.pdf = TRUE,
                       !.manifest = BuildManifest(@, w.anchored, t)]
       IN  /\ fs' = IF pdf_ok THEN done ELSE w.files
           /\ cas' = w.cas
           /\ built' = IF pdf_ok
                       THEN [ok |-> TRUE, minutes |-> done.minutes,
                             mcred |-> done.mcred, mproof |-> done.mproof]
                       ELSE built
           /\ hist' = [before |-> hist.last,
                       last |-> IF pdf_ok THEN "built" ELSE "failed",
                       prev |-> built,
                       anchored |-> w.anchored]
    /\ dir' = TRUE
    /\ clock' = t
    /\ result' = NoResult
    /\ UNCHANGED <<anchor, key, edited, saved>>
    /\ UNCHANGED <<hvars, lvars, mtvars, xvars>>

Build(got_receipt, pdf_ok, t) == BuildStep(MaxBuilds, got_receipt, pdf_ok, t)

\* build_artifacts in the rebuild scenario: the same call, made repeatedly
Rebuild(got_receipt, pdf_ok, t) ==
    BuildStep(MaxRebuilds, got_receipt, pdf_ok, t)

EditableFiles ==
    {"transcript", "minutes", "mcred", "mproof", "receipt"}

FileEdits(f, name) ==
    CASE name = "transcript" -> BytesFileEdits(f.transcript, MaxDocLen)
      [] name = "minutes" -> BytesFileEdits(f.minutes, Len(f.minutes.b))
      [] name = "mcred" -> JsonFileEdits(f.mcred, CredEdits(f.mcred.json))
      [] name = "mproof" -> JsonFileEdits(f.mproof, ProofEdits(f.mproof.json))
      [] name = "receipt" -> JsonFileEdits(f.receipt, ReceiptEdits(f.receipt.json))

\* a third party overwrites or deletes one file of a built session, keeping
\* a backup (demo_tampering.py steps 3-5, test_verify.py)
Edit(name, content) ==
    /\ built.ok /\ edited = "none"
    /\ fs' = [fs EXCEPT ![name] = content]
    /\ saved' = fs
    /\ edited' = name
    /\ result' = NoResult
    /\ UNCHANGED <<dir, cas, anchor, key, clock, built, calls, hist>>
    /\ UNCHANGED <<hvars, lvars, mtvars, xvars>>

\* the backup is moved back (demo_tampering.py "Restore original")
Restore ==
    /\ edited # "none"
    /\ fs' = saved
    /\ saved' = EmptyDir
    /\ edited' = "none"
    /\ result' = NoResult
    /\ UNCHANGED <<dir, cas, anchor, key, clock, built, calls, hist>>
    /\ UNCHANGED <<hvars, lvars, mtvars, xvars>>

\* result = service.verify_artifacts(slug); chain is what the ledger answers
Verify(chain) ==
    /\ dir' = TRUE
    /\ result' = verify_artifacts(fs, cas, anchor, chain)
    /\ UNCHANGED <<fs, cas, anchor, key, clock, built, edited, saved, calls,
                   hist>>
    /\ UNCHANGED <<hvars, lvars, mtvars, xvars>>

Next ==
    \/ \E transcript \in BytesUpTo(MaxDocLen), t \in clock..MaxClock :
          Ingest(transcript, t)
    \/ BuildRaisesAtStart
    \/ \E got_receipt \in {b \in BOOLEAN : b => anchor.contract},
          pdf_ok \in BOOLEAN, t \in clock..MaxClock :
          Build(got_receipt, pdf_ok, t)
    \/ \E name \in EditableFiles : \E content \in FileEdits(fs, name) :
          Edit(name, content)
    \/ Restore
    \/ \E chain \in {"error", "nomatch", "match"} : Verify(chain)

-----------------------------------------------------------------------------
(* Key scenario: HashingService instances constructed over one keys_path *)

Instances == 1..NumInstances

\* an instance: not yet constructed ("new"), constructed ("ready"), or its
\* constructor raised; the positions in between belong to the concurrent
\* constructions below
NoInstance == [pc |-> "new", key |-> 0, cred |-> NoCred]

InitKeys ==
    /\ kfile \in {NoKeyFile} \cup {KeyFile(k) : k \in Keys}
    /\ kfirst = kfile
    /\ kproc = [p \in Instances |-> NoInstance]

\* what the key file held when it first existed
FirstContent(file) == IF kfirst.st = "absent" THEN file ELSE kfirst

\* HashingService(keys_path) constructed with no other constructor running
KConstruct(p, fresh) ==
    /\ kproc[p].pc = "new"
    /\ \A q \in Instances : kproc[q].pc \in {"new", "ready", "raised"}
    /\ LET r == get_or_create_signing_key(kfile, fresh)
       IN  /\ kfile' = r.file
           /\ kfirst' = FirstContent(r.file)
           /\ kproc' = [kproc EXCEPT
                           ![p].pc = IF r.exc = "" THEN "ready" ELSE "raised",
                           ![p].key = r.key]
    /\ UNCHANGED <<svars, hvars, lvars, mtvars, chk, rvars>>

\* instance p creates a credential for a file holding data
KCreateCredential(p, data, schema, t) ==
    /\ kproc[p].pc = "ready"
    /\ kproc[p].cred = NoCred
    /\ kproc' = [kproc EXCEPT ![p].cred =
                    create_credential(kproc[p].key, data, TargetName, schema, t)]
    /\ UNCHANGED <<kfile, kfirst>>
    /\ UNCHANGED <<svars, hvars, lvars, mtvars, chk, rvars>>

NextKeys ==
    \/ \E p \in Instances, fresh \in Keys : KConstruct(p, fresh)
    \/ \E p \in Instances, data \in BytesUpTo(1), schema \in Schemas :
          KCreateCredential(p, data, schema, 0)

\* Concurrent constructors, one step per file operation.

\* key_file.exists() (hashing.py line 26)
KExists(p) ==
    /\ kproc[p].pc = "new"
    /\ kproc' = [kproc EXCEPT ![p].pc = IF kfile.st = "absent"
                                       THEN "missing" ELSE "found"]
    /\ UNCHANGED <<kfile, kfirst>>
    /\ UNCHANGED <<svars, hvars, lvars, mtvars, chk, rvars>>

\* open(key_file, 'rb'), read, SigningKey(key_bytes) (lines 27-29)
KRead(p) ==
    /\ kproc[p].pc = "found"
    /\ kproc' = [kproc EXCEPT
                    ![p].pc = IF kfile.st = "key" THEN "ready" ELSE "raised",
                    ![p].key = IF kfile.st = "key" THEN kfile.k ELSE 0]
    /\ UNCHANGED <<kfile, kfirst>>
    /\ UNCHANGED <<svars, hvars, lvars, mtvars, chk, rvars>>

\* SigningKey.generate() and open(key_file, 'wb') (lines 31-32)
KOpen(p, fresh) ==
    /\ kproc[p].pc = "missing"
    /\ kproc' = [kproc EXCEPT ![p].pc = "opened", ![p].key = fresh]
    /\ kfile' = EmptyKeyFile
    /\ kfirst' = FirstContent(EmptyKeyFile)
    /\ UNCHANGED <<svars, hvars, lvars, mtvars, chk, rvars>>

\* f.write(bytes(signing_key)), close, chmod (lines 33-35)
KWrite(p) ==
    /\ kproc[p].pc = "opened"
    /\ kproc' = [kproc EXCEPT ![p].pc = "ready"]
    /\ kfile' = KeyFile(kproc[p].key)
    /\ UNCHANGED kfirst
    /\ UNCHANGED <<svars, hvars, lvars, mtvars, chk, rvars>>

NextKeyRace ==
    \/ \E p \in Instances : KExists(p)
    \/ \E p \in Instances : KRead(p)
    \/ \E p \in Instances, fresh \in Keys : KOpen(p, fresh)
    \/ \E p \in Instances : KWrite(p)
    \/ \E p \in Instances, data \in BytesUpTo(1), schema \in Schemas :
          KCreateCredential(p, data, schema, 0)

(* Checks scenario: the three verification functions called directly on
   inputs that were made by the service and then possibly damaged *)

\* a handler that catches ValueError and its subclasses only
except_ValueError(exc) == exc \in {"ValueError", "binascii.Error"}

\* "except Exception": every exception the try blocks below can raise is a
\* subclass of Exception
except_Exception(exc) == exc # ""

\* what the caller sees of a try block that ended with exception exc ("" for
\* none) or returned value, under "except Exception: return False"
Returned(exc, value) ==
    IF exc = "" THEN (IF value THEN "True" ELSE "False")
    ELSE IF except_Exception(exc) THEN "False"
    ELSE "raised"

\* the try block of verify_signature (hashing.py lines 73-77)
verify_signature_try(data, signature, public_key) ==
    LET exc ==
          IF signature.ty # "str" THEN "TypeError"
          ELSE IF ~B64Ok(signature.v) THEN "binascii.Error"
          ELSE IF public_key.ty # "str" THEN "TypeError"
          ELSE IF ~B64Ok(public_key.v) THEN "binascii.Error"
          ELSE IF ~VerifyKeyOk(B64Decode(public_key.v)) THEN "ValueError"
          ELSE IF ~Ed25519Verify(B64Decode(public_key.v), data,
                                 B64Decode(signature.v))
               THEN "BadSignatureError"
          ELSE ""
    IN  Returned(exc, TRUE)

\* the try block of verify_credential (hashing.py lines 119-135), statement
\* by statement; the comparisons short-circuit
verify_credential_try(credential, exists, data) ==
    LET h == compute_file_hashes(data)
        differs(field, x) ==
            IF Subscript(credential, field) # "" THEN Subscript(credential, field)
            ELSE IF ~PyEq(field, x) THEN "differs" ELSE ""
        compared ==
            IF differs(credential.sha256, Str(h.sha256)) # ""
            THEN differs(credential.sha256, Str(h.sha256))
            ELSE IF differs(credential.blake3, Str(h.blake3)) # ""
            THEN differs(credential.blake3, Str(h.blake3))
            ELSE differs(credential.size, JInt(h.size))
        cred_copy == [credential EXCEPT !.signature = Absent]
    IN  IF ~exists THEN Returned("FileNotFoundError", FALSE)
        ELSE IF compared = "differs" THEN Returned("", FALSE)
        ELSE IF compared # "" THEN Returned(compared, FALSE)
        ELSE IF ~Has(credential.signature) THEN Returned("KeyError", FALSE)
        ELSE IF ~Has(credential.signer) THEN Returned("KeyError", FALSE)
        ELSE IF Subscript(credential.signer, credential.signer.publicKey) # ""
        THEN Returned(Subscript(credential.signer,
                                credential.signer.publicKey), FALSE)
        ELSE Returned("", verify_signature_try(canonical_json(cred_copy),
                                               credential.signature,
                                               credential.signer.publicKey)
                          = "True")

\* the try block of verify_proof (merkle.py lines 165-168)
verify_proof_try(exists, data, proof) ==
    IF proof.ty # "dict" THEN Returned("AttributeError", FALSE)
    ELSE IF ~exists THEN Returned("FileNotFoundError", FALSE)
    ELSE IF Has(proof.chunkSize) /\ proof.chunkSize.ty \notin {"int", "bool"}
    THEN Returned("TypeError", FALSE)
    ELSE IF Has(proof.chunkSize) /\ proof.chunkSize.v[1] = 0
    THEN Returned("ValueError", FALSE)
    ELSE IF ~Has(proof.merkleRoot) THEN Returned("KeyError", FALSE)
    ELSE Returned("", PyEq(build_from_file(data,
                                           ChunkSizeOf(proof.chunkSize),
                                           N_minutes).merkleRoot,
                           proof.merkleRoot))

\* nothing made, nothing called
NoCheck ==
    [file |-> NoFile, cred |-> NoCred, proof |-> NoProof, edited |-> "none",
     fn |-> "none", out |-> "none"]

\* a file, and the credential and the proof the service made for it
Made(b, k, chunk_size) ==
    [NoCheck EXCEPT
        !.file = BytesFile(b),
        !.cred = create_credential(k, b, N_minutes, Schema_BoardMinutes, 0),
        !.proof = build_from_file(b, chunk_size, N_minutes)]

InitChecks ==
    chk \in {Made(b, k, chunk_size) :
                b \in BytesUpTo(1), k \in Keys, chunk_size \in 1..MaxChunkSize}

\* a public key text that decodes, to fewer bytes than a key has
ShortKey == Str(B64Encode(<<7>>))

\* the credential with one field changed or removed, with a short public
\* key, or replaced by a value that is not a dict
CDamageCred(c) ==
    /\ chk.edited = "none"
    /\ chk' = [chk EXCEPT !.cred = c, !.edited = "cred",
                          !.fn = "none", !.out = "none"]
    /\ UNCHANGED <<svars, hvars, lvars, mtvars, kvars, rvars>>

\* the proof with one field changed or removed, or not a dict
CDamageProof(p) ==
    /\ chk.edited = "none"
    /\ chk' = [chk EXCEPT !.proof = p, !.edited = "proof",
                          !.fn = "none", !.out = "none"]
    /\ UNCHANGED <<svars, hvars, lvars, mtvars, kvars, rvars>>

\* the target file is deleted
CRemoveFile ==
    /\ chk.edited = "none"
    /\ chk' = [chk EXCEPT !.file = NoFile, !.edited = "file",
                          !.fn = "none", !.out = "none"]
    /\ UNCHANGED <<svars, hvars, lvars, mtvars, kvars, rvars>>

\* the bytes a credential's signature is over
SignedBytes(c) == canonical_json([c EXCEPT !.signature = Absent])

\* hashing.verify_signature(data, cred["signature"], signer["publicKey"])
\* for a credential that has both
CVerifySignature ==
    /\ chk.cred.ty = "dict" /\ chk.cred.signer.ty = "dict"
    /\ Has(chk.cred.signature) /\ Has(chk.cred.signer.publicKey)
    /\ chk' = [chk EXCEPT
                  !.fn = "verify_signature",
                  !.out = verify_signature_try(SignedBytes(chk.cred),
                                               chk.cred.signature,
                                               chk.cred.signer.publicKey)]
    /\ UNCHANGED <<svars, hvars, lvars, mtvars, kvars, rvars>>

\* hashing.verify_credential(cred, path)
CVerifyCredential ==
    /\ chk' = [chk EXCEPT
                  !.fn = "verify_credential",
                  !.out = verify_credential_try(chk.cred,
                                                chk.file.st = "bytes",
                                                chk.file.b)]
    /\ UNCHANGED <<svars, hvars, lvars, mtvars, kvars, rvars>>

\* MerkleTree.verify_proof(path, proof)
CVerifyProof ==
    /\ chk' = [chk EXCEPT
                  !.fn = "verify_proof",
                  !.out = verify_proof_try(chk.file.st = "bytes", chk.file.b,
                                           chk.proof)]
    /\ UNCHANGED <<svars, hvars, lvars, mtvars, kvars, rvars>>

NextChecks ==
    \/ \E c \in CredEdits(chk.cred)
              \cup {[chk.cred EXCEPT !.signer.publicKey = ShortKey],
                    [chk.cred EXCEPT !.ty = "list"]} : CDamageCred(c)
    \/ \E p \in ProofEdits(chk.proof) \cup {[chk.proof EXCEPT !.ty = "list"]} :
          CDamageProof(p)
    \/ CRemoveFile
    \/ CVerifySignature
    \/ CVerifyCredential
    \/ CVerifyProof

-----------------------------------------------------------------------------
(* CAS race scenario: concurrent store_in_cas calls with the same slug,
   algo, hash_value and content, one step per file operation *)

Writers == 1..NumWriters

NoCasRace ==
    [algo |-> "", hash |-> <<>>, content |-> <<>>, pc |-> <<>>, wrote |-> <<>>]

\* the digest a caller passes for content (service.py lines 102-108)
DigestOf(algo, content) ==
    IF algo = "sha256" THEN compute_sha256(content) ELSE compute_blake3(content)

\* the object is absent, or an earlier call with the same arguments wrote it
InitCasRace ==
    \E algo \in CasAlgos, content \in CasContents \cup {<<0, 1>>} :
        /\ cw = [algo |-> algo, hash |-> DigestOf(algo, content),
                 content |-> content,
                 pc |-> [w \in Writers |-> "start"],
                 wrote |-> [w \in Writers |-> FALSE]]
        /\ cas \in {{}, store_in_cas({}, algo, DigestOf(algo, content), content)}

\* a write that adds to what the file holds
write_appending(c, algo, hash_value, content) ==
    {o \in c : ~(o.algo = algo /\ o.hash = hash_value)}
        \cup {[algo |-> algo, hash |-> hash_value,
               content |-> (IF CasHas(c, algo, hash_value)
                            THEN (CHOOSE o \in c : o.algo = algo
                                                   /\ o.hash = hash_value).content
                            ELSE <<>>) \o content]}

\* the file holds content from offset 0 once f.write(content) is done
write(c, algo, hash_value, content) ==
    {o \in c : ~(o.algo = algo /\ o.hash = hash_value)}
        \cup {[algo |-> algo, hash |-> hash_value, content |-> content]}

\* cas_file.exists() (storage.py line 80); a call that finds the file returns
WExists(w) ==
    /\ cw.pc[w] = "start"
    /\ cw' = [cw EXCEPT !.pc[w] = IF CasHas(cas, cw.algo, cw.hash)
                                  THEN "returned" ELSE "absent"]
    /\ UNCHANGED cas
    /\ UNCHANGED <<dir, fs, anchor, key, clock, built, result, edited, saved,
                   calls, hist>>
    /\ UNCHANGED <<hvars, lvars, mtvars, kvars, chk, bld, rin>>

\* write_bytes opens the file with 'wb': it exists and is empty
WOpen(w) ==
    /\ cw.pc[w] = "absent"
    /\ cw' = [cw EXCEPT !.pc[w] = "open"]
    /\ cas' = write(cas, cw.algo, cw.hash, <<>>)
    /\ UNCHANGED <<dir, fs, anchor, key, clock, built, result, edited, saved,
                   calls, hist>>
    /\ UNCHANGED <<hvars, lvars, mtvars, kvars, chk, bld, rin>>

\* write_bytes writes content and closes; store_in_cas returns
WWrite(w) ==
    /\ cw.pc[w] = "open"
    /\ cw' = [cw EXCEPT !.pc[w] = "returned", !.wrote[w] = TRUE]
    /\ cas' = write(cas, cw.algo, cw.hash, cw.content)
    /\ UNCHANGED <<dir, fs, anchor, key, clock, built, result, edited, saved,
                   calls, hist>>
    /\ UNCHANGED <<hvars, lvars, mtvars, kvars, chk, bld, rin>>

NextCasRace ==
    \/ \E w \in Writers : WExists(w)
    \/ \E w \in Writers : WOpen(w)
    \/ \E w \in Writers : WWrite(w)

-----------------------------------------------------------------------------
(* Race scenarios: build_artifacts calls on one ingested slug running
   concurrently with each other, or with an ingest_transcript call on the
   same slug.  A step of a call runs a range of lines of build_artifacts
   and ends at a write of a file that the other calls read; what a call
   holds in memory between steps is kept in its record.  Anchoring is
   disabled and the clock stands still. *)

Builders == 1..NumBuilders

\* a build_artifacts call that has not started
NewBuilder ==
    [pc |-> "start", minutes |-> <<>>, tcred |-> NoCred, mcred |-> NoCred,
     mproof |-> NoProof]

\* the session directory after ingest_transcript stored the transcript
IngestedDir(transcript) == ingest_transcript(EmptyDir, transcript, 0)

InitRaceSession ==
    /\ dir = TRUE
    /\ fs \in {IngestedDir(transcript) : transcript \in BytesUpTo(MaxDocLen)}
    /\ cas = {}
    /\ anchor = [enabled |-> FALSE, contract |-> FALSE]
    /\ key = 1 /\ clock = 0 /\ built = NoBuild /\ result = NoResult
    /\ edited = "none" /\ saved = EmptyDir
    /\ calls = [ingest |-> 1, build |-> 0]
    /\ hist = NoHist

RaceFrame ==
    /\ UNCHANGED <<dir, anchor, key, clock, built, edited, saved, calls, hist>>
    /\ UNCHANGED <<hvars, lvars, mtvars, kvars, chk, cw>>

\* lines 70-73: the transcript and the manifest are read, the minutes are
\* structured in memory
BStart(p) ==
    /\ bld[p].pc = "start"
    /\ BuildCanStart(fs)
    /\ bld' = [bld EXCEPT
                  ![p].pc = "structured",
                  ![p].minutes =
                      structure_transcript(fs.transcript.b,
                          get_manifest(fs.manifest, 0).artifacts[1].fileName)]
    /\ UNCHANGED <<fs, cas, result, rin>>
    /\ RaceFrame

\* line 76: minutes.json is written
BWriteMinutes(p) ==
    /\ bld[p].pc = "structured"
    /\ fs' = [fs EXCEPT !.minutes = BytesFile(bld[p].minutes)]
    /\ bld' = [bld EXCEPT ![p].pc = "minutes"]
    /\ UNCHANGED <<cas, result, rin>>
    /\ RaceFrame

\* lines 82-95: the transcript credential is made from the file on disk and
\* written; the minutes credential is made from minutes.json on disk
BCredentials(p) ==
    /\ bld[p].pc = "minutes"
    /\ LET transcript_cred ==
               create_credential(key, fs.transcript.b, N_transcript,
                                 Schema_Transcript, 0)
       IN  /\ fs' = [fs EXCEPT !.tcred = store_artifact(transcript_cred)]
           /\ bld' = [bld EXCEPT
                         ![p].pc = "credentials",
                         ![p].tcred = transcript_cred,
                         ![p].mcred =
                             create_credential(key, fs.minutes.b, N_minutes,
                                               Schema_BoardMinutes, 0)]
    /\ UNCHANGED <<cas, result, rin>>
    /\ RaceFrame

\* line 96: minutes.cred.json is written
BWriteMinutesCred(p) ==
    /\ bld[p].pc = "credentials"
    /\ fs' = [fs EXCEPT !.mcred = store_artifact(bld[p].mcred)]
    /\ bld' = [bld EXCEPT ![p].pc = "mcred"]
    /\ UNCHANGED <<cas, result, rin>>
    /\ RaceFrame

\* lines 102-119: the transcript and the minutes are read again and stored
\* in the CAS under the hashes of the credentials; the transcript proof is
\* built from the file and written
BCasAndTranscriptProof(p) ==
    /\ bld[p].pc = "mcred"
    /\ LET transcript_content == fs.transcript.b
           minutes_content == fs.minutes.b
           c1 == store_in_cas(cas, "sha256", bld[p].tcred.sha256.v,
                              transcript_content)
           c2 == store_in_cas(c1, "blake3", bld[p].tcred.blake3.v,
                              transcript_content)
           c3 == store_in_cas(c2, "sha256", bld[p].mcred.sha256.v,
                              minutes_content)
       IN  /\ cas' = store_in_cas(c3, "blake3", bld[p].mcred.blake3.v,
                                  minutes_content)
           /\ fs' = [fs EXCEPT !.tproof =
                        store_artifact(build_from_file(fs.transcript.b,
                                           DefaultChunkSize, N_transcript))]
    /\ bld' = [bld EXCEPT ![p].pc = "cas"]
    /\ UNCHANGED <<result, rin>>
    /\ RaceFrame

\* lines 121-122: the minutes proof is built from minutes.json on disk
BMinutesProof(p) ==
    /\ bld[p].pc = "cas"
    /\ bld' = [bld EXCEPT
                  ![p].pc = "proof",
                  ![p].mproof = build_from_file(fs.minutes.b, DefaultChunkSize,
                                                N_minutes)]
    /\ UNCHANGED <<fs, cas, result, rin>>
    /\ RaceFrame

\* lines 123-126: minutes.proof.json is written
BWriteMinutesProof(p) ==
    /\ bld[p].pc = "proof"
    /\ fs' = [fs EXCEPT !.mproof = store_artifact(bld[p].mproof)]
    /\ bld' = [bld EXCEPT ![p].pc = "mproof"]
    /\ UNCHANGED <<cas, result, rin>>
    /\ RaceFrame

\* lines 128-173: the packet and the PDF are written from what the call
\* holds, the manifest is updated once per path; the call returns
BFinish(p) ==
    /\ bld[p].pc = "mproof"
    /\ fs' = [fs EXCEPT
                 !.packet = [st |-> "json", minutes |-> bld[p].minutes,
                             credential |-> bld[p].mcred,
                             proof |-> bld[p].mproof,
                             anchorReceipt |-> NoReceipt],
                 !.pdf = TRUE,
                 !.manifest = BuildManifest(@, FALSE, 0)]
    /\ bld' = [bld EXCEPT ![p].pc = "returned"]
    /\ UNCHANGED <<cas, result, rin>>
    /\ RaceFrame

\* verify_artifacts(slug) once every call has returned
RVerify ==
    /\ \A p \in DOMAIN bld : bld[p].pc = "returned"
    /\ rin \in {"idle", "returned"}
    /\ result = NoResult
    /\ result' = verify_artifacts(fs, cas, anchor, "error")
    /\ UNCHANGED <<fs, cas, bld, rin>>
    /\ RaceFrame

NextRace ==
    \/ \E p \in DOMAIN bld : BStart(p)
    \/ \E p \in DOMAIN bld : BWriteMinutes(p)
    \/ \E p \in DOMAIN bld : BCredentials(p)
    \/ \E p \in DOMAIN bld : BWriteMinutesCred(p)
    \/ \E p \in DOMAIN bld : BCasAndTranscriptProof(p)
    \/ \E p \in DOMAIN bld : BMinutesProof(p)
    \/ \E p \in DOMAIN bld : BWriteMinutesProof(p)
    \/ \E p \in DOMAIN bld : BFinish(p)
    \/ RVerify

\* ingest_transcript on the same slug, lines 50-54: the transcript is
\* overwritten
IWriteTranscript(transcript) ==
    /\ rin = "called"
    /\ fs' = [fs EXCEPT !.transcript = BytesFile(transcript)]
    /\ rin' = "stored"
    /\ UNCHANGED <<cas, result, bld>>
    /\ RaceFrame

\* lines 56-63: the manifest is updated; the call returns
IUpdateManifest ==
    /\ rin = "stored"
    /\ fs' = [fs EXCEPT !.manifest =
                 update_manifest(@, "transcript", "transcript.normalized.json",
                                 "Transcript_v1", 0)]
    /\ rin' = "returned"
    /\ UNCHANGED <<cas, result, bld>>
    /\ RaceFrame

NextIngestRace ==
    \/ \E p \in DOMAIN bld : BStart(p)
    \/ \E p \in DOMAIN bld : BWriteMinutes(p)
    \/ \E p \in DOMAIN bld : BCredentials(p)
    \/ \E p \in DOMAIN bld : BWriteMinutesCred(p)
    \/ \E p \in DOMAIN bld : BCasAndTranscriptProof(p)
    \/ \E p \in DOMAIN bld : BMinutesProof(p)
    \/ \E p \in DOMAIN bld : BWriteMinutesProof(p)
    \/ \E p \in DOMAIN bld : BFinish(p)
    \/ \E transcript \in BytesUpTo(MaxDocLen) : IWriteTranscript(transcript)
    \/ IUpdateManifest
    \/ RVerify

-----------------------------------------------------------------------------
\* Rebuild scenario: ingest, then build_artifacts called again and again
NextRebuild ==
    \/ \E transcript \in BytesUpTo(MaxDocLen), t \in clock..MaxClock :
          Ingest(transcript, t)
    \/ \E got_receipt \in {b \in BOOLEAN : b => anchor.contract},
          pdf_ok \in BOOLEAN, t \in clock..MaxClock :
          Rebuild(got_receipt, pdf_ok, t)
    \/ \E chain \in {"error", "nomatch", "match"} : Verify(chain)

-----------------------------------------------------------------------------
(* Specifications: each scenario runs with the other ones idle *)

IdleHash ==
    /\ hfile = <<>> /\ hkey = 1 /\ hcred = NoCred
    /\ horig = [file |-> <<>>, cred |-> NoCred]
    /\ hres = "none" /\ hedits = 0 /\ hver = 0

IdleSession ==
    /\ dir = FALSE /\ fs = EmptyDir /\ cas = {}
    /\ anchor = [enabled |-> FALSE, contract |-> FALSE]
    /\ key = 1 /\ clock = 0 /\ built = NoBuild /\ result = NoResult
    /\ edited = "none" /\ saved = EmptyDir
    /\ calls = [ingest |-> 0, build |-> 0]
    /\ hist = NoHist

IdleStore == ulog = <<>> /\ plog = <<>>

IdleKeys == kfile = NoKeyFile /\ kfirst = NoKeyFile /\ kproc = <<>>

IdleCheck == chk = NoCheck

IdleRaces == bld = <<>> /\ rin = "idle" /\ cw = NoCasRace

IdleMerkle ==
    /\ mtfile = <<>> /\ mtproof = NoProof
    /\ mtorig = [file |-> <<>>, proof |-> NoProof]
    /\ mtout = NoCall

Init == InitSession /\ IdleHash /\ IdleStore /\ IdleMerkle
        /\ IdleKeys /\ IdleCheck /\ IdleRaces

Spec == Init /\ [][Next]_vars

InitH == IdleSession /\ InitHash /\ IdleStore /\ IdleMerkle
         /\ IdleKeys /\ IdleCheck /\ IdleRaces

SpecHash == InitH /\ [][NextHash]_vars

SpecRebuild == Init /\ [][NextRebuild]_vars

InitK == IdleSession /\ IdleHash /\ IdleStore /\ IdleMerkle
         /\ InitKeys /\ IdleCheck /\ IdleRaces

SpecKeys == InitK /\ [][NextKeys]_vars

InitKR == IdleSession /\ IdleHash /\ IdleStore /\ IdleMerkle
          /\ kfile = NoKeyFile /\ kfirst = NoKeyFile
          /\ kproc = [p \in Instances |-> NoInstance]
          /\ IdleCheck /\ IdleRaces

SpecKeyRace == InitKR /\ [][NextKeyRace]_vars

InitC == IdleSession /\ IdleHash /\ IdleStore /\ IdleMerkle
         /\ IdleKeys /\ InitChecks /\ IdleRaces

SpecChecks == InitC /\ [][NextChecks]_vars

InitW == /\ dir = TRUE /\ fs = EmptyDir
         /\ anchor = [enabled |-> FALSE, contract |-> FALSE]
         /\ key = 1 /\ clock = 0 /\ built = NoBuild /\ result = NoResult
         /\ edited = "none" /\ saved = EmptyDir
         /\ calls = [ingest |-> 0, build |-> 0]
         /\ hist = NoHist
         /\ IdleHash /\ IdleStore /\ IdleMerkle /\ IdleKeys /\ IdleCheck
         /\ bld = <<>> /\ rin = "idle"
         /\ InitCasRace

SpecCasRace == InitW /\ [][NextCasRace]_vars

\* NumBuilders concurrent builds, no other writer
InitR == /\ InitRaceSession
         /\ IdleHash /\ IdleStore /\ IdleMerkle /\ IdleKeys /\ IdleCheck
         /\ bld = [p \in Builders |-> NewBuilder]
         /\ rin = "idle"
         /\ cw = NoCasRace

SpecRace == InitR /\ [][NextRace]_vars

\* one build and one ingest of the same slug, concurrently
InitI == /\ InitRaceSession
         /\ IdleHash /\ IdleStore /\ IdleMerkle /\ IdleKeys /\ IdleCheck
         /\ bld = <<NewBuilder>>
         /\ rin = "called"
         /\ cw = NoCasRace

SpecIngestRace == InitI /\ [][NextIngestRace]_vars

InitS == IdleSession /\ IdleHash /\ IdleStore /\ IdleMerkle
         /\ IdleKeys /\ IdleCheck /\ IdleRaces

SpecStore == InitS /\ [][NextStore]_vars

InitM == IdleSession /\ IdleHash /\ IdleStore /\ InitMerkle
         /\ IdleKeys /\ IdleCheck /\ IdleRaces

SpecMerkle == InitM /\ [][NextMerkle]_vars

-----------------------------------------------------------------------------
(* Claims about verify_artifacts *)

\* verify_artifacts has been called and nothing was written since
Called == result.propagated # "not called"

\* minutes.json, minutes.cred.json and minutes.proof.json hold the bytes the
\* latest successful build wrote
BuiltIntact ==
    /\ built.ok
    /\ fs.minutes = built.minutes
    /\ fs.mcred = built.mcred
    /\ fs.mproof = built.mproof

EmptyText == Str(<<>>)

\* C1: whenever the three files hold the bytes of the latest successful
\* build (also after modifications that were undone), verify_artifacts
\* returns valid=True with a non-empty docHash and localRoot.
C1_BuiltBytesVerify ==
    (Called /\ BuiltIntact) =>
        /\ result.valid
        /\ result.localRoot # EmptyText
        /\ result.docHash # EmptyText

\* C2: after a successful build, when minutes.json has been overwritten with
\* other bytes and the credential and proof are as built, verify_artifacts
\* returns valid=False.
C2_OverwrittenMinutesRejected ==
    (/\ Called /\ built.ok
     /\ fs.minutes.st = "bytes" /\ fs.minutes # built.minutes
     /\ fs.mcred = built.mcred /\ fs.mproof = built.mproof)
    => ~result.valid

C2_Witness ==
    /\ Called /\ built.ok /\ edited = "minutes"
    /\ fs.minutes.st = "bytes" /\ Len(fs.minutes.b) = Len(built.minutes.b)
    /\ fs.mcred = built.mcred /\ fs.mproof = built.mproof
    /\ ~result.valid /\ result.caught = ""

\* exactly one stored value of the verification record differs from what
\* the build wrote: the bytes of minutes.json, one field of the credential
\* or one field of the proof
SingleValueChanged ==
    /\ built.ok
    /\ \/ edited = "minutes" /\ fs.minutes.st = "bytes"
       \/ /\ edited = "mcred"
          /\ fs.mcred.st = "json" /\ fs.mcred.json.ty = "dict"
          /\ fs.mcred.json # built.mcred.json
       \/ /\ edited = "mproof"
          /\ fs.mproof.st = "json" /\ fs.mproof.json.ty = "dict"
          /\ fs.mproof.json # built.mproof.json

\* C3: after a successful build, a change of any single stored value of
\* minutes.json, minutes.cred.json or minutes.proof.json makes
\* verify_artifacts return valid=False.
C3_AnySingleChangeRejected ==
    (Called /\ SingleValueChanged) => ~result.valid

\* C4: after a successful build, a change of the content of
\* transcript.normalized.json makes verify_artifacts return valid=False.
C4_TranscriptChangeRejected ==
    (Called /\ built.ok /\ edited = "transcript" /\ fs.transcript.st = "bytes")
    => ~result.valid

\* C5: verify_artifacts lets no exception through, whatever the state of the
\* session directory, and when its handler caught one the result is
\* valid=False with empty localRoot and docHash.
C5_VerifyNeverRaises ==
    Called =>
        /\ result.propagated = ""
        /\ result.caught # "" =>
              /\ ~result.valid
              /\ result.localRoot = EmptyText
              /\ result.docHash = EmptyText

C5_Witness ==
    /\ Called /\ result.propagated = ""
    /\ result.caught \in {"JSONDecodeError", "KeyError", "TypeError"}
    /\ ~result.valid

\* C6: when the stored credential and proof can be read, valid is True
\* exactly when verify_credential and verify_proof are both True for the
\* current minutes.json.
C6_ValidIffBothChecks ==
    (Called /\ fs.mcred.st = "json" /\ fs.mproof.st = "json") =>
        (result.valid <=>
            /\ verify_credential(fs.mcred.json, fs.minutes.st = "bytes",
                                 fs.minutes.b)
            /\ verify_proof(fs.minutes.st = "bytes", fs.minutes.b,
                            fs.mproof.json))

\* C7: for the files as they are, valid is what it would be with anchoring
\* disabled, whatever the anchoring configuration, the receipt file and the
\* ledger's answer.
C7_AnchorNeverAffectsValid ==
    Called =>
        (result.valid <=>
            verify_artifacts(fs, cas, [enabled |-> FALSE, contract |-> FALSE],
                             "error").valid)

\* C8: after a successful build, when merkleRoot in minutes.proof.json is
\* replaced by "0" * 64, the localRoot returned is not that value.
C8_ZeroRootNotReported ==
    (/\ Called /\ built.ok /\ edited = "mproof" /\ fs.mproof.st = "json"
     /\ fs.mproof.json = [built.mproof.json EXCEPT !.merkleRoot = Str(ZeroHash)])
    => result.localRoot # Str(ZeroHash)

-----------------------------------------------------------------------------
(* Claims about credentials *)

\* C9: a credential created for a file verifies against that file as long
\* as neither the file nor the credential was modified in between.
C9_CredentialRoundTrip ==
    (hres # "none" /\ hfile = horig.file /\ hcred = horig.cred) => hres = "true"

C9_Witness ==
    hres = "true" /\ hcred = horig.cred /\ hfile = horig.file /\ Len(hfile) > 0

\* C10: after exactly one change to the file or to one field of the
\* credential (the signature included), verify_credential returns False.
C10_AnySingleChangeRejected ==
    (hres # "none" /\ hedits = 1) => hres = "false"

-----------------------------------------------------------------------------
(* Claims about the Merkle tree *)

\* the root of a fresh tree over data cut into chunks of c bytes
RecomputedRoot(data, c) ==
    LET chunks == chunk_data(data, c)
    IN  build_tree([i \in 1..Len(chunks) |-> hash_chunk(chunks[i])]).root

\* C11: verify_proof returns True exactly when the root recomputed from the
\* file's current bytes with the chunkSize recorded in the proof equals
\* proof.merkleRoot: a proof built with any chunk size verifies against its
\* unchanged file, and it returns False once merkleRoot is "0" * 64.
C11_VerifyProofUsesRecordedChunkSize ==
    mtout.op = "verify_proof" =>
        /\ (mtfile = mtorig.file /\ mtproof = mtorig.proof) => mtout.ok
        /\ (/\ mtfile = mtorig.file
            /\ mtproof = [mtorig.proof EXCEPT !.merkleRoot = Str(ZeroHash)])
           => ~mtout.ok
        /\ (/\ mtproof.ty = "dict"
            /\ mtproof.chunkSize.ty = "int" /\ mtproof.chunkSize.v[1] >= 1
            /\ mtproof.merkleRoot.ty = "str")
           => (mtout.ok <=>
                 RecomputedRoot(mtfile, mtproof.chunkSize.v[1])
                     = mtproof.merkleRoot.v)

C11_Witness ==
    /\ mtout.op = "verify_proof" /\ mtout.ok
    /\ mtproof = mtorig.proof /\ mtfile = mtorig.file
    /\ mtproof.chunkSize = JInt(1) /\ Len(mtfile) >= 2

\* C12: for a proof as built from bytes B, verify_proof returns True only
\* for a file whose bytes are B.
C12_ProofAcceptsOnlyBuiltBytes ==
    (mtout.op = "verify_proof" /\ mtout.ok /\ mtproof = mtorig.proof)
    => mtfile = mtorig.file

\* C13: for every leaf index of a built tree the generated inclusion proof
\* verifies against the root, also for the last node of an odd level, and
\* the proof carried in the proof dict is the one of leaf 0.
C13_InclusionProofsVerify ==
    /\ mtout.op = "inclusion" => mtout.ok
    /\ mtproof # NoProof =>
          /\ mtorig.proof.inclusion.leafIndex = JInt(0)
          /\ verify_inclusion(BuiltLeaves[1], mtorig.proof.inclusion,
                              mtorig.proof.merkleRoot.v)

C13_Witness ==
    /\ mtout.op = "inclusion" /\ mtout.ok
    /\ Len(BuiltLeaves) = 3 /\ mtout.i = 2
    /\ mtout.p.siblings[1] = mtout.x

\* C14: for a tree with at least two leaves, verify_inclusion accepts a
\* presented value with some proof only when the value is one of the leaf
\* hashes.
C14_OnlyLeavesAccepted ==
    (mtout.op = "present" /\ mtout.ok /\ Len(BuiltLeaves) >= 2)
    => \E i \in 1..Len(BuiltLeaves) : BuiltLeaves[i] = mtout.x

\* C15: build_from_file on n bytes with chunk size c yields max(1, ceil(n/c))
\* leaves, in file order, each the SHA-256 of its chunk; a zero-byte file
\* yields the single leaf sha256(b"") and a non-empty root equal to it.
C15_LeavesOfBuild ==
    mtproof # NoProof =>
        LET n == Len(mtorig.file)
            c == mtorig.proof.chunkSize.v[1]
            k == IF n = 0 THEN 1 ELSE (n + c - 1) \div c
        IN  /\ Len(BuiltLeaves) = k
            /\ \A i \in 1..k :
                  BuiltLeaves[i] =
                      HexDigest(Sha256Raw(SubSeq(mtorig.file, (i - 1) * c + 1,
                                                 Min(i * c, n))))
            /\ mtorig.proof.merkleRoot # Str(<<>>)
            /\ n = 0 =>
                  /\ BuiltLeaves = <<HexDigest(Sha256Raw(<<>>))>>
                  /\ mtorig.proof.merkleRoot = Str(BuiltLeaves[1])

C15_Witness ==
    /\ mtproof # NoProof /\ Len(mtorig.file) = 0
    /\ Len(BuiltLeaves) = 1 /\ mtorig.proof.merkleRoot = Str(BuiltLeaves[1])

-----------------------------------------------------------------------------
(* Claims about the store *)

Artifacts == fs.manifest.artifacts

\* the latest update_manifest call for file_name, 0 when there is none
LatestCallFor(file_name) ==
    LET S == {i \in 1..Len(ulog) : ulog[i].fileName = file_name}
    IN  IF S = {} THEN 0 ELSE CHOOSE i \in S : \A j \in S : j <= i

\* C16: after any sequence of update_manifest calls the manifest holds at
\* most one entry per fileName (exactly one for the fileName of the latest
\* call), an entry carries the type and metadata of the latest call for its
\* fileName, createdAt is the time of the first call and updatedAt the time
\* of the latest.
C16_ManifestInvariant ==
    ulog # <<>> =>
        /\ \A i, j \in 1..Len(Artifacts) :
              Artifacts[i].fileName = Artifacts[j].fileName => i = j
        /\ \E i \in 1..Len(Artifacts) :
              Artifacts[i].fileName = ulog[Len(ulog)].fileName
        /\ \A i \in 1..Len(Artifacts) :
              LET k == LatestCallFor(Artifacts[i].fileName)
              IN  /\ k > 0
                  /\ Artifacts[i].type = ulog[k].type
                  /\ Artifacts[i].schema = ulog[k].schema
        /\ fs.manifest.createdAt = ulog[1].t
        /\ fs.manifest.updatedAt = ulog[Len(ulog)].t

C16_Witness ==
    /\ Len(ulog) = 2
    /\ ulog[1].fileName = ulog[2].fileName /\ ulog[1].schema # ulog[2].schema
    /\ ulog[1].t < ulog[2].t
    /\ Len(Artifacts) = 1 /\ Artifacts[1].schema = ulog[2].schema
    /\ fs.manifest.createdAt = ulog[1].t

\* C17: update_manifest for fileName f keeps every entry with another
\* fileName, unchanged and in order, and appends the new entry for f last.
C17_OtherEntriesKept ==
    ulog # <<>> =>
        LET c == ulog[Len(ulog)]
        IN  Artifacts =
                Append(SelectSeq(c.found, LAMBDA a : a.fileName # c.fileName),
                       [type |-> c.type, fileName |-> c.fileName,
                        createdAt |-> c.t, schema |-> c.schema])

\* C20: after any sequence of store_in_cas calls, the object at
\* cas/<algo>/<hash> holds the bytes of the first call for that key; later
\* calls with the key leave it as it is.
C20_CasKeepsFirstContent ==
    /\ \A o \in cas :
          \E i \in 1..Len(plog) :
              /\ plog[i].algo = o.algo /\ plog[i].hash = o.hash
              /\ plog[i].content = o.content
              /\ \A j \in 1..(i - 1) :
                    ~(plog[j].algo = o.algo /\ plog[j].hash = o.hash)
    /\ \A i \in 1..Len(plog) : CasHas(cas, plog[i].algo, plog[i].hash)
    /\ \A o1, o2 \in cas :
          (o1.algo = o2.algo /\ o1.hash = o2.hash) => o1 = o2

C20_Witness ==
    /\ Len(plog) = 2
    /\ plog[1].algo = plog[2].algo /\ plog[1].hash = plog[2].hash
    /\ plog[1].content # plog[2].content
    /\ \E o \in cas : o.content = plog[1].content

-----------------------------------------------------------------------------
(* Claims about build_artifacts *)

\* the files a successful build_artifacts produced
ProducedFiles ==
    {"minutes.json", "transcript.cred.json", "minutes.cred.json",
     "transcript.proof.json", "minutes.proof.json", "minutes.packet.json",
     "minutes.pdf"}
        \cup (IF hist.anchored THEN {"anchor_receipt.json"} ELSE {})

\* C18: after build_artifacts returned successfully the manifest has an
\* entry for each artifact the build produced.
C18_ManifestListsBuildArtifacts ==
    hist.last = "built" =>
        \A name \in ProducedFiles :
            \E i \in 1..Len(Artifacts) : Artifacts[i].fileName = name

\* C19: when build_artifacts succeeds twice in a row with the transcript
\* unchanged, the second run writes the same bytes of minutes.json, hence
\* the same sha256 and blake3 in minutes.cred.json and the same merkleRoot
\* in minutes.proof.json.
C19_RebuildWritesSameMinutes ==
    (hist.last = "built" /\ hist.before = "built") =>
        /\ fs.minutes = hist.prev.minutes
        /\ fs.mcred.json.sha256 = hist.prev.mcred.json.sha256
        /\ fs.mcred.json.blake3 = hist.prev.mcred.json.blake3
        /\ fs.mproof.json.merkleRoot = hist.prev.mproof.json.merkleRoot

-----------------------------------------------------------------------------
(* Claims about the signing identity *)

Ready == {p \in Instances : kproc[p].pc = "ready"}

\* C21: once the key file exists, constructing further instances one after
\* another never changes it, every instance holds the key in the file, and
\* signer.publicKey is the same in every credential the instances create.
C21_KeyCreatedOnceAndReused ==
    /\ kfirst.st # "absent" => kfile = kfirst
    /\ \A p \in Ready : kfile = KeyFile(kproc[p].key)
    /\ \A p, q \in Ready :
          (kproc[p].cred # NoCred /\ kproc[q].cred # NoCred) =>
              kproc[p].cred.signer.publicKey = kproc[q].cred.signer.publicKey

C21_Witness ==
    /\ Ready = Instances /\ NumInstances >= 2
    /\ \A p \in Instances : kproc[p].cred # NoCred
    /\ \E p, q \in Instances : kproc[p].cred.sha256 # kproc[q].cred.sha256

\* C23: a session directory exists only when the slug was ingested:
\* build_artifacts and verify_artifacts on a slug that was never ingested
\* create no directory, so list_sessions lists ingested slugs only.
C23_SessionOnlyThroughIngest == dir => calls.ingest > 0

\* C27: verify_artifacts returns valid=True only if an earlier
\* build_artifacts call on the slug returned; a build that raised partway
\* leaves no state that verifies as valid.
C27_ValidOnlyAfterReturnedBuild == (Called /\ result.valid) => built.ok

\* the least c with 2c >= n
CeilHalf(n) == CHOOSE c \in 0..n : 2 * c >= n /\ 2 * (c - 1) < n

\* C24: after build_from_file, level 0 of the tree is the leaves; each
\* higher level has ceil(n/2) nodes for n nodes below; node i is
\* H(below[2i] || below[2i+1]), or H(below[2i] || below[2i]) when 2i is the
\* last index of an odd level; the top level has one node, the root; a
\* single-leaf tree has root = leaves[0] and no internal level.
C24_TreeShape ==
    mtorig.proof # NoProof =>
        LET tree == BuiltTree.tree
            top == Len(tree)
        IN  /\ tree[1] = BuiltLeaves
            /\ \A l \in 2..top :
                  LET below == tree[l - 1]
                      n == Len(below)
                  IN  /\ n > 1
                      /\ Len(tree[l]) = CeilHalf(n)
                      /\ \A i \in 0..(Len(tree[l]) - 1) :
                            tree[l][i + 1] =
                                hash_pair(below[2 * i + 1],
                                          IF 2 * i = n - 1
                                          THEN below[2 * i + 1]
                                          ELSE below[2 * i + 2])
            /\ Len(tree[top]) = 1
            /\ BuiltTree.root = tree[top][1]
            /\ mtorig.proof.merkleRoot = Str(BuiltTree.root)
            /\ Len(BuiltLeaves) = 1 =>
                  top = 1 /\ BuiltTree.root = BuiltLeaves[1]

C24_Witness ==
    /\ mtorig.proof # NoProof
    /\ Len(BuiltLeaves) = 3
    /\ Len(BuiltTree.tree) = 3

\* the name of a credential field that is missing, if any
MissingCredField(c) ==
    \/ \E f \in ScalarFields \ {"note"} : ~Has(c[f])
    \/ ~Has(c.signer)
    \/ c.signer.ty = "dict" /\ (~Has(c.signer.type) \/ ~Has(c.signer.publicKey))

\* the input of the call recorded in chk is malformed in one of the ways the
\* contract lists
Malformed ==
    \/ /\ chk.fn = "verify_signature"
       /\ \/ chk.cred.signature.ty # "str" \/ ~B64Ok(chk.cred.signature.v)
          \/ chk.cred.signer.publicKey.ty # "str"
          \/ ~B64Ok(chk.cred.signer.publicKey.v)
          \/ Len(B64Decode(chk.cred.signer.publicKey.v)) # Len(PublicKeyBytes(1))
    \/ /\ chk.fn = "verify_credential"
       /\ \/ chk.cred.ty # "dict"
          \/ MissingCredField(chk.cred)
          \/ chk.file.st # "bytes"
    \/ /\ chk.fn = "verify_proof"
       /\ \/ chk.proof.ty # "dict"
          \/ ~Has(chk.proof.merkleRoot)
          \/ chk.proof.chunkSize = JInt(0)
          \/ Has(chk.proof.chunkSize) /\ chk.proof.chunkSize.ty # "int"
          \/ chk.file.st # "bytes"

\* C22: verify_signature, verify_credential and verify_proof never raise,
\* and return False on malformed input: an undecodable signature or public
\* key, a key of the wrong length, a credential missing a field, a proof
\* without merkleRoot or with an unusable chunkSize, a missing target file.
C22_ChecksFailClosed ==
    chk.fn # "none" =>
        /\ chk.out \in {"True", "False"}
        /\ Malformed => chk.out = "False"
        /\ chk.fn = "verify_signature" =>
              ((chk.out = "True") <=>
                  verify_signature(SignedBytes(chk.cred), chk.cred.signature,
                                   chk.cred.signer.publicKey))
        /\ chk.fn = "verify_credential" =>
              ((chk.out = "True") <=>
                  verify_credential(chk.cred, chk.file.st = "bytes", chk.file.b))
        /\ chk.fn = "verify_proof" =>
              ((chk.out = "True") <=>
                  verify_proof(chk.file.st = "bytes", chk.file.b, chk.proof))

\* a credential whose signer lost its publicKey was given to
\* verify_credential, which returned False
C22_Witness ==
    /\ chk.fn = "verify_credential" /\ chk.out = "False"
    /\ chk.cred.signer.ty = "dict" /\ ~Has(chk.cred.signer.publicKey)
    /\ chk.file.st = "bytes"

\* C25: under every interleaving of the existence test and the write of
\* concurrent store_in_cas calls with the same algo, hash_value and content,
\* once all calls have returned cas/<algo>/<hash> exists and holds exactly
\* content.
C25_RacingCasWritesAgree ==
    (\A w \in Writers : cw.pc[w] = "returned") =>
        /\ CasHas(cas, cw.algo, cw.hash)
        /\ \A o \in cas :
              (o.algo = cw.algo /\ o.hash = cw.hash) => o.content = cw.content

\* all calls found the file absent and wrote it
C25_Witness ==
    /\ NumWriters >= 2
    /\ \A w \in Writers : cw.pc[w] = "returned" /\ cw.wrote[w]

\* C28: when build_artifacts calls on the same slug run concurrently with
\* no other writer, then once all of them have returned verify_artifacts
\* returns valid=True.
C28_ConcurrentBuildsVerify ==
    (/\ \A p \in DOMAIN bld : bld[p].pc = "returned"
     /\ Len(bld) >= 2 /\ rin = "idle"
     /\ Called)
    => result.valid

\* C29: every CAS object holds bytes whose digest under its algorithm is
\* its key, in every state of a build running concurrently with an ingest.
C29_CasObjectsMatchKey ==
    \A o \in cas : o.hash = DigestOf(o.algo, o.content)

\* C26: the outcome of verifyCredential does not depend on the signing key
\* of the instance that runs it: every instance returns the same answer for
\* the same credential and file, and a credential signed by the key it
\* embeds, presented with the file it was made for, is accepted by an
\* instance holding any key.
C26_VerifierKeyIrrelevant ==
    hres # "none" =>
        /\ \A k \in Keys :
              verify_credential_by(k, hcred, TRUE, hfile) = (hres = "true")
        /\ (hedits = 0 => hres = "true")

C26_Witness == hres = "true" /\ hedits = 0 /\ hver # hkey

\* C30: when instances are constructed concurrently while no key file
\* exists, then once all constructors have finished every instance holds
\* the same signing key, the one persisted in the key file.
C30_RacingConstructorsShareKey ==
    (\A p \in Instances : kproc[p].pc \in {"ready", "raised"}) =>
        \A p \in Instances :
            kproc[p].pc = "ready" /\ kfile = KeyFile(kproc[p].key)

====
